---- MODULE Spec2Model ----
(***************************************************************************)
(* Swapchain lifecycle and present loop of aspen-engine.                   *)
(*                                                                         *)
(* Two programs of the repository drive a present loop:                    *)
(*   - Framework (extras/th/framework.rs): one window, windows[0], with a  *)
(*     full present cycle (recreate, acquire, submit, present);            *)
(*   - Engine (src/lib.rs with graphics/window.rs): a list of AspenWindow, *)
(*     each with an optional Present and a should_recreate_swapchain flag. *)
(* Start-up of both (Graphics::new, Framework::new: device selection,      *)
(* logical device, queue, first swapchain) is a third part, SpecStart.     *)
(* Each has its own specification (SpecFw, SpecEng); the variables of the  *)
(* other parts stay at their initial values; SpecAll is their disjoint     *)
(* union. fwTrace records every event                                      *)
(* the Framework loop handled, engLast the last event the Engine loop      *)
(* handled, each with the window state before and after.                   *)
(*                                                                         *)
(* An Option<T> is modelled as a sequence: <<>> is None, <<x>> is Some(x). *)
(***************************************************************************)
EXTENDS Integers, Sequences, FiniteSets, TLC

\* Number of events each event loop handles in a run of the model.
MaxFwEvents == 4
MaxEngEvents == 3
\* Number of windows the Engine opens (the main window included).
MaxWindows == 3
\* Number of physical devices the instance enumerates.
MaxDevices == 2
\* Largest minimum image count a surface reports.
MaxMinImageCount == 3
\* Number of update functions registered with the builder.
MaxUpdateFuncs == 2
\* The example simulation: entities spawned per team, and the largest
\* Health and Ammo values they are spawned with.
MaxTeam == 1
MaxHealth == 2
MaxAmmo == 2

VARIABLES fwWindow, fwInnerSize, fwStatus, fwNextToken, fwTrace,
          engWindows, engStatus, engNextId, engPosted, engEvents, engLast,
          engControlFlow, engGraphics, engUpdateFuncs, engShutdown,
          stProgram, stPc, stDevices, stSelected, stRequest, stSwapchain, stResult,
          stLogger,
          simRed, simBlue, simSpawned, simResult, simExits, simStatus, simLast

fwVars == <<fwWindow, fwInnerSize, fwStatus, fwNextToken, fwTrace>>
engVars == <<engWindows, engStatus, engNextId, engPosted, engEvents, engLast,
             engControlFlow, engGraphics, engUpdateFuncs, engShutdown>>
stVars == <<stProgram, stPc, stDevices, stSelected, stRequest, stSwapchain, stResult,
            stLogger>>
simVars == <<simRed, simBlue, simSpawned, simResult, simExits, simStatus, simLast>>
vars == <<fwVars, engVars, stVars, simVars>>

---------------------------------------------------------------------------
(* Values shared by both programs *)

\* Drawable extents a window reports (Window::inner_size), [width, height].
Extents == {<<800, 600>>, <<400, 300>>, <<0, 300>>, <<400, 0>>}

\* image_extent.contains(&0)
IsZeroExtent(e) == e[1] = 0 \/ e[2] = 0

NonZeroExtents == {e \in Extents : ~IsZeroExtent(e)}

\* The extent a window reports when it is opened.
DefaultExtent == <<800, 600>>

\* `x as f32` for a u32: exact below 2^24, else rounded to a 24 bit
\* significand, ties to even.
RECURSIVE F32Ulp(_)
F32Ulp(n) == IF n < 16777216 THEN 1 ELSE 2 * F32Ulp(n \div 2)

AsF32(n) ==
    LET u == F32Ulp(n)
        q == n \div u
        r == n % u
    IN  IF 2 * r < u THEN q * u
        ELSE IF 2 * r > u THEN (q + 1) * u
        ELSE IF q % 2 = 0 THEN q * u ELSE (q + 1) * u

\* What a surface answers when a swapchain is first created for it: the
\* min_image_count of surface_capabilities() and the first format of
\* surface_formats().
SurfaceAnswers ==
    {[min_image_count |-> 1, image_format |-> "B8G8R8A8_SRGB"],
     [min_image_count |-> MaxMinImageCount, image_format |-> "R8G8B8A8_UNORM"]}

\* Variant of RequestedImageCount that requests the reported minimum as it is.
RequestedImageCountAsReported(min_image_count) == min_image_count

\* surface_capabilities.min_image_count.max(2)
RequestedImageCount(min_image_count) ==
    IF min_image_count > 2 THEN min_image_count ELSE 2

\* The SwapchainCreateInfo of a first creation for surface, of which only
\* image_extent is passed anew on a recreation; gen counts the swapchains
\* built for the window.
SwapchainCreated(surface, answer, image_extent) ==
    [gen |-> 0, image_extent |-> image_extent, surface |-> surface,
     image_format |-> answer.image_format,
     min_image_count |-> RequestedImageCount(answer.min_image_count)]

\* The images a swapchain hands out: those of its generation, of its extent,
\* as many as were requested.
ImagesOf(swapchain) ==
    [gen |-> swapchain.gen, extent |-> swapchain.image_extent,
     count |-> swapchain.min_image_count]

---------------------------------------------------------------------------
(* Framework: extras/th/framework.rs *)

\* One call the present cycle makes on the Vulkan runtime, with the state it
\* is made in: the swapchain generation it uses, the extent it passes (for
\* acquire_next_image, the extent of the swapchain it acquires from) and the
\* value of windows[0].recreate_swapchain at the call.
FwCall(op, w, extent) ==
    [op |-> op, gen |-> w.swapchain.gen, extent |-> extent,
     dirty |-> w.recreate_swapchain]

\* sync::now(device).boxed(): a future that stands for no prior work.
FwNowToken(id) ==
    [kind |-> "now", id |-> id, after |-> <<>>, acquired |-> <<>>, work |-> <<>>]

\* Variant of FwFrameToken whose work is not joined to the previous token.
FwFrameTokenUnjoined(id, prev, w) ==
    [kind |-> "frame", id |-> id,
     after |-> <<>>, acquired |-> <<w.swapchain.gen>>,
     work |-> <<"then_execute", "then_swapchain_present">>]

\* prev.join(acquire_future).then_execute(..).then_swapchain_present(..)
\*   .then_signal_fence_and_flush(): the future of this frame. after and
\* acquired are what its work waits for, the previous token and the
\* acquisition from the swapchain; work is what it stands for, in the order
\* the queue runs it.
FwFrameToken(id, prev, w) ==
    [kind |-> "frame", id |-> id,
     after |-> <<prev.id>>, acquired |-> <<w.swapchain.gen>>,
     work |-> <<"then_execute", "then_swapchain_present">>]

\* Variant of FwViewportAfterSetup that leaves the viewport as it is.
FwViewportAfterSetupKeepsExtent(viewport, image_extent) == viewport

\* window_size_dependent_setup(&new_images, &mut viewport): only the extent
\* of the viewport is assigned.
FwViewportAfterSetup(viewport, image_extent) ==
    [viewport EXCEPT !.extent = <<AsF32(image_extent[1]), AsF32(image_extent[2])>>]

\* window_size_dependent_setup(..): one ImageView per image passed.
FwImageViewsOf(images) == images

\* The WindowWrapper that Framework::new builds for the main window, whose
\* surface gave answer.
FwNewWindow(size, answer) ==
    [swapchain |-> SwapchainCreated("main_window_surface", answer, size),
     images |-> ImagesOf(SwapchainCreated("main_window_surface", answer, size)),
     image_views |-> FwImageViewsOf(
                        ImagesOf(SwapchainCreated("main_window_surface", answer, size))),
     recreate_swapchain |-> FALSE,
     prev_frame_end |-> <<FwNowToken(0)>>,
     viewport |-> FwViewportAfterSetup(
                     [offset |-> <<0, 0>>, extent |-> <<0, 0>>, depth_range |-> <<0, 1>>],
                     size)]

\* Variant of SwapchainRecreated that asks for the default image count again.
SwapchainRecreatedFromDefaults(swapchain, image_extent) ==
    [swapchain EXCEPT !.gen = @ + 1, !.image_extent = image_extent,
                      !.min_image_count = 2]

\* swapchain.recreate(SwapchainCreateInfo { image_extent,
\*                                           ..swapchain.create_info() })
SwapchainRecreated(swapchain, image_extent) ==
    [swapchain EXCEPT !.gen = @ + 1, !.image_extent = image_extent]

\* The `if self.windows[0].recreate_swapchain { .. }` block, recreation
\* succeeding: swapchain and image_views are replaced, the viewport is
\* recomputed from the new images, the flag is cleared. windows[0].images is
\* not assigned.
FwRecreated(w, image_extent) ==
    LET new_swapchain == SwapchainRecreated(w.swapchain, image_extent)
        new_images == ImagesOf(new_swapchain)
    IN  [w EXCEPT !.swapchain = new_swapchain,
                  !.image_views = FwImageViewsOf(new_images),
                  !.viewport = FwViewportAfterSetup(w.viewport, new_images.extent),
                  !.recreate_swapchain = FALSE]

\* Faulty variant of FwBeforeAcquire: the recreate block is missing.
FwBeforeAcquireNoRecreate(w, image_extent) == w

\* The window when the cycle reaches acquire_next_image, recreation succeeding.
FwBeforeAcquire(w, image_extent) ==
    IF w.recreate_swapchain THEN FwRecreated(w, image_extent) ELSE w

\* The calls made up to and including acquire_next_image.
FwCallsToAcquire(w, image_extent) ==
    <<FwCall("cleanup_finished", w, image_extent)>>
    \o (IF w.recreate_swapchain
        THEN <<FwCall("recreate", w, image_extent)>>
        ELSE <<>>)
    \o <<FwCall("acquire_next_image", FwBeforeAcquire(w, image_extent),
                FwBeforeAcquire(w, image_extent).swapchain.image_extent)>>

\* Faulty variant of FwAcquireOutOfDate: the flag is not set.
FwAcquireOutOfDateNotMarked(w) == w

\* Err(VulkanError::OutOfDate) from acquire_next_image.
FwAcquireOutOfDate(w) == [w EXCEPT !.recreate_swapchain = TRUE]

\* Faulty variant of FwAcquired: suboptimal recreates within the cycle.
FwAcquiredRecreatesAtOnce(w, suboptimal) ==
    IF suboptimal THEN FwRecreated(w, w.swapchain.image_extent) ELSE w

\* Ok((image_index, suboptimal, acquire_future)) and `if suboptimal { .. }`.
FwAcquired(w, suboptimal) ==
    IF suboptimal THEN [w EXCEPT !.recreate_swapchain = TRUE] ELSE w

\* self.windows[0].prev_frame_end.take()
FwTaken(w) == [w EXCEPT !.prev_frame_end = <<>>]

\* The calls of the submission: the command buffer is executed on the
\* swapchain that was acquired from, then presented, then flushed.
FwCallsToFlush(w, image_extent) ==
    <<FwCall("then_execute", w, image_extent),
      FwCall("then_swapchain_present", w, image_extent),
      FwCall("then_signal_fence_and_flush", w, image_extent)>>

\* Faulty variant of FwFlushed: OutOfDate puts the taken token back.
FwFlushedKeepsStaleToken(w, prev, result, id) ==
    CASE result = "Ok" ->
            [w EXCEPT !.prev_frame_end = <<FwFrameToken(id, prev, w)>>]
      [] result = "OutOfDate" ->
            [w EXCEPT !.recreate_swapchain = TRUE,
                      !.prev_frame_end = <<prev>>]
      [] OTHER ->
            [w EXCEPT !.prev_frame_end = <<FwNowToken(id)>>]

\* Faulty variant of FwFlushed: another error leaves prev_frame_end None.
FwFlushedDropsToken(w, prev, result, id) ==
    CASE result = "Ok" ->
            [w EXCEPT !.prev_frame_end = <<FwFrameToken(id, prev, w)>>]
      [] result = "OutOfDate" ->
            [w EXCEPT !.recreate_swapchain = TRUE,
                      !.prev_frame_end = <<FwNowToken(id)>>]
      [] OTHER -> w

\* Variant of FwFlushed: another error sets recreate_swapchain as well.
FwFlushedErrMarksDirty(w, prev, result, id) ==
    CASE result = "Ok" ->
            [w EXCEPT !.prev_frame_end = <<FwFrameToken(id, prev, w)>>]
      [] OTHER ->
            [w EXCEPT !.recreate_swapchain = TRUE,
                      !.prev_frame_end = <<FwNowToken(id)>>]

\* match future.map_err(Validated::unwrap) { .. }, on the window w whose
\* token prev was taken for the submission.
FwFlushed(w, prev, result, id) ==
    CASE result = "Ok" ->
            [w EXCEPT !.prev_frame_end = <<FwFrameToken(id, prev, w)>>]
      [] result = "OutOfDate" ->
            [w EXCEPT !.recreate_swapchain = TRUE,
                      !.prev_frame_end = <<FwNowToken(id)>>]
      [] OTHER ->
            [w EXCEPT !.prev_frame_end = <<FwNowToken(id)>>]

\* The lines one call of the closure writes to standard output with
\* println!: "redraw requested!" at the top of the RedrawRequested arm, and
\* "failed to flush future: {e}" in the last arm of the flush match, before
\* prev_frame_end is assigned.
FwPrinted(event, flush) ==
    IF event # "RedrawRequested" THEN <<>>
    ELSE <<"redraw requested!">>
            \o (IF flush = "Err" THEN <<"failed to flush future">> ELSE <<>>)

\* The records one call of the closure hands to an AspenLogger
\* (AspenLogger::log pushes one string to logs): the Framework holds no
\* logger and calls none.
FwLogged(event, acquire, flush) == <<>>

\* One handled event, as an observer of the loop sees it: the event, the
\* window's inner size, what acquisition and flush returned ("none" when not
\* reached), the calls made, the window before and after, the loop's
\* status after it, and what it printed and logged.
FwEntry(event, size, acquire, flush, calls, pre, post, status) ==
    [event |-> event, size |-> size, acquire |-> acquire, flush |-> flush,
     calls |-> calls, pre |-> pre, post |-> post, status |-> status,
     printed |-> FwPrinted(event, flush),
     logged |-> FwLogged(event, acquire, flush)]

\* The closure is called while the loop runs.
FwCanHandle == fwStatus = "running" /\ Len(fwTrace) < MaxFwEvents

FwInit ==
    /\ fwInnerSize = DefaultExtent
    /\ \E answer \in SurfaceAnswers : fwWindow = FwNewWindow(fwInnerSize, answer)
    /\ fwStatus = "running"
    /\ fwNextToken = 1
    /\ fwTrace = <<>>

\* WindowEvent::CloseRequested => window.exit()
FwCloseRequested ==
    /\ FwCanHandle
    /\ fwStatus' = "exited"
    /\ fwTrace' = Append(fwTrace,
          FwEntry("CloseRequested", fwInnerSize, "none", "none", <<>>,
                  fwWindow, fwWindow, "exited"))
    /\ UNCHANGED <<fwWindow, fwInnerSize, fwNextToken>>
    /\ UNCHANGED <<engVars, stVars, simVars>>

\* Variant of FwResizedWindow that recreates the swapchain at once.
FwResizedWindowRecreates(w) ==
    [FwRecreated(w, w.swapchain.image_extent) EXCEPT !.recreate_swapchain = TRUE]

\* WindowEvent::Resized(_) => self.windows[0].recreate_swapchain = true
FwResizedWindow(w) == [w EXCEPT !.recreate_swapchain = TRUE]

FwResized ==
    /\ FwCanHandle
    /\ \E size \in Extents :
          /\ fwInnerSize' = size
          /\ fwWindow' = FwResizedWindow(fwWindow)
          /\ fwTrace' = Append(fwTrace,
                FwEntry("Resized", size, "none", "none", <<>>,
                        fwWindow, fwWindow', "running"))
    /\ UNCHANGED <<fwStatus, fwNextToken>>
    /\ UNCHANGED <<engVars, stVars, simVars>>

\* The guard `if image_extent.contains(&0) { return; }`
FwSkips(image_extent) == IsZeroExtent(image_extent)

\* Variant of FwRedrawSkipped: the skipped cycle clears the flag.
FwRedrawSkippedClearsFlag ==
    /\ FwCanHandle
    /\ FwSkips(fwInnerSize)
    /\ fwWindow' = [fwWindow EXCEPT !.recreate_swapchain = FALSE]
    /\ fwTrace' = Append(fwTrace,
          FwEntry("RedrawRequested", fwInnerSize, "none", "none", <<>>,
                  fwWindow, fwWindow', "running"))
    /\ UNCHANGED <<fwInnerSize, fwStatus, fwNextToken>>
    /\ UNCHANGED <<engVars, stVars, simVars>>

\* RedrawRequested, zero extent: return before anything else.
FwRedrawSkipped ==
    /\ FwCanHandle
    /\ FwSkips(fwInnerSize)
    /\ fwTrace' = Append(fwTrace,
          FwEntry("RedrawRequested", fwInnerSize, "none", "none", <<>>,
                  fwWindow, fwWindow, "running"))
    /\ UNCHANGED <<fwWindow, fwInnerSize, fwStatus, fwNextToken>>
    /\ UNCHANGED <<engVars, stVars, simVars>>

\* RedrawRequested, swapchain.recreate(..) fails: expect() panics.
FwRedrawRecreateFailed ==
    /\ FwCanHandle
    /\ ~FwSkips(fwInnerSize)
    /\ fwWindow.recreate_swapchain
    /\ fwStatus' = "panicked"
    /\ fwTrace' = Append(fwTrace,
          FwEntry("RedrawRequested", fwInnerSize, "none", "none",
                  <<FwCall("cleanup_finished", fwWindow, fwInnerSize),
                    FwCall("recreate", fwWindow, fwInnerSize)>>,
                  fwWindow, fwWindow, "panicked"))
    /\ UNCHANGED <<fwWindow, fwInnerSize, fwNextToken>>
    /\ UNCHANGED <<engVars, stVars, simVars>>

\* RedrawRequested, acquire_next_image returns Err(OutOfDate).
FwRedrawAcquireOutOfDate ==
    /\ FwCanHandle
    /\ ~FwSkips(fwInnerSize)
    /\ fwWindow' = FwAcquireOutOfDate(FwBeforeAcquire(fwWindow, fwInnerSize))
    /\ fwTrace' = Append(fwTrace,
          FwEntry("RedrawRequested", fwInnerSize, "OutOfDate", "none",
                  FwCallsToAcquire(fwWindow, fwInnerSize),
                  fwWindow, fwWindow', "running"))
    /\ UNCHANGED <<fwInnerSize, fwStatus, fwNextToken>>
    /\ UNCHANGED <<engVars, stVars, simVars>>

\* Variant of FwRedrawAcquireFailed that returns from the closure instead of
\* panicking.
FwRedrawAcquireFailedReturns ==
    /\ FwCanHandle
    /\ ~FwSkips(fwInnerSize)
    /\ fwWindow' = FwBeforeAcquire(fwWindow, fwInnerSize)
    /\ fwTrace' = Append(fwTrace,
          FwEntry("RedrawRequested", fwInnerSize, "Err", "none",
                  FwCallsToAcquire(fwWindow, fwInnerSize),
                  fwWindow, fwWindow', "running"))
    /\ UNCHANGED <<fwInnerSize, fwStatus, fwNextToken>>
    /\ UNCHANGED <<engVars, stVars, simVars>>

\* RedrawRequested, acquire_next_image returns another error: panic!().
FwRedrawAcquireFailed ==
    /\ FwCanHandle
    /\ ~FwSkips(fwInnerSize)
    /\ fwWindow' = FwBeforeAcquire(fwWindow, fwInnerSize)
    /\ fwStatus' = "panicked"
    /\ fwTrace' = Append(fwTrace,
          FwEntry("RedrawRequested", fwInnerSize, "Err", "none",
                  FwCallsToAcquire(fwWindow, fwInnerSize),
                  fwWindow, fwWindow', "panicked"))
    /\ UNCHANGED <<fwInnerSize, fwNextToken>>
    /\ UNCHANGED <<engVars, stVars, simVars>>

\* RedrawRequested, image acquired, then_execute(..) fails: unwrap() panics
\* after prev_frame_end.take().
FwRedrawExecuteFailed ==
    /\ FwCanHandle
    /\ ~FwSkips(fwInnerSize)
    /\ \E suboptimal \in BOOLEAN :
          LET acquired == FwAcquired(FwBeforeAcquire(fwWindow, fwInnerSize), suboptimal)
          IN  /\ fwWindow' = FwTaken(acquired)
              /\ fwTrace' = Append(fwTrace,
                    FwEntry("RedrawRequested", fwInnerSize,
                            IF suboptimal THEN "Suboptimal" ELSE "Ok", "none",
                            FwCallsToAcquire(fwWindow, fwInnerSize)
                              \o <<FwCall("then_execute", acquired, fwInnerSize)>>,
                            fwWindow, fwWindow', "panicked"))
    /\ fwStatus' = "panicked"
    /\ UNCHANGED <<fwInnerSize, fwNextToken>>
    /\ UNCHANGED <<engVars, stVars, simVars>>

\* RedrawRequested, image acquired, work submitted; the flush returns result.
FwRedrawSubmitted ==
    /\ FwCanHandle
    /\ ~FwSkips(fwInnerSize)
    /\ \E suboptimal \in BOOLEAN, result \in {"Ok", "OutOfDate", "Err"} :
          LET acquired == FwAcquired(FwBeforeAcquire(fwWindow, fwInnerSize), suboptimal)
          IN  /\ fwWindow' = FwFlushed(FwTaken(acquired), acquired.prev_frame_end[1],
                                       result, fwNextToken)
              /\ fwTrace' = Append(fwTrace,
                    FwEntry("RedrawRequested", fwInnerSize,
                            IF suboptimal THEN "Suboptimal" ELSE "Ok", result,
                            FwCallsToAcquire(fwWindow, fwInnerSize)
                              \o FwCallsToFlush(acquired, fwInnerSize),
                            fwWindow, fwWindow', "running"))
    /\ fwNextToken' = fwNextToken + 1
    /\ UNCHANGED <<fwInnerSize, fwStatus>>
    /\ UNCHANGED <<engVars, stVars, simVars>>

FwNext ==
    \/ FwCloseRequested
    \/ FwResized
    \/ FwRedrawSkipped
    \/ FwRedrawRecreateFailed
    \/ FwRedrawAcquireOutOfDate
    \/ FwRedrawAcquireFailed
    \/ FwRedrawExecuteFailed
    \/ FwRedrawSubmitted

---------------------------------------------------------------------------
(* Engine: src/lib.rs, src/graphics/mod.rs, src/graphics/window.rs *)

\* What the runtime answers to the calls of the first creation of a
\* swapchain; every answer but "Ok" makes recreate_swapchain return Err,
\* except an empty format list, which panics on `[0]`.
CreateResults ==
    {"Ok", "GetSurfaceCapabilitiesFailed", "GetSurfaceFormatsFailed",
     "NoSurfaceFormats", "GetWindowCompositeSurfaceFailed", "CreateSwapChainFailed"}

\* Swapchain::new rejects an image extent with a zero dimension.
CreateResultsFor(size) ==
    IF IsZeroExtent(size) THEN CreateResults \ {"Ok"} ELSE CreateResults

\* AspenWindow::window_size_dependent_setup(&images): the viewport.
ViewportOf(image_extent) ==
    [offset |-> <<0, 0>>,
     extent |-> <<AsF32(image_extent[1]), AsF32(image_extent[2])>>,
     depth_range |-> <<0, 1>>]

\* AspenWindow::new: no Present yet, should_recreate_swapchain set.
AspenWindowNew(id, size) ==
    [id |-> id, size |-> size, present |-> <<>>, should_recreate_swapchain |-> TRUE]

\* AspenWindow::set_recreate_swapchain
SetRecreateSwapchain(w) == [w EXCEPT !.should_recreate_swapchain = TRUE]

\* AspenWindow::window_size_dependent_setup(&images): one ImageView per
\* image; serial numbers the fresh views.
ImageViewsOf(images, serial) ==
    [gen |-> images.gen, serial |-> serial, count |-> images.count]

\* The Present built in the None arm, for the window's own surface.
PresentCreated(surface, answer, image_extent, serial) ==
    LET swapchain == SwapchainCreated(surface, answer, image_extent)
    IN  [swapchain |-> swapchain,
         images |-> ImagesOf(swapchain),
         image_views |-> ImageViewsOf(ImagesOf(swapchain), serial),
         viewport |-> ViewportOf(ImagesOf(swapchain).extent)]

\* The Some arm: views and viewport rebuilt from present.images.
PresentRebuilt(present, serial) ==
    [present EXCEPT !.image_views = ImageViewsOf(present.images, serial),
                    !.viewport = ViewportOf(present.images.extent)]

\* Faulty variant of RecreateSwapchain: creation uses a fixed extent instead
\* of window.inner_size().
RecreateSwapchainIgnoresSize(w, serial, answer) ==
    IF w.present = <<>>
    THEN [w EXCEPT !.present = <<PresentCreated(w.id, answer[1], <<800, 600>>, serial)>>]
    ELSE [w EXCEPT !.present = <<PresentRebuilt(w.present[1], serial)>>]

\* AspenWindow::recreate_swapchain returning Ok(()).
\*  None: a swapchain is created with image_extent = window.inner_size(), and
\*    Present is built from its images;
\*  Some: image views and viewport are rebuilt from the images already held.
\* should_recreate_swapchain is not assigned. serial numbers the fresh views.
\*  answer is what the surface answered, <<>> when it was not asked.
RecreateSwapchain(w, serial, answer) ==
    IF w.present = <<>>
    THEN [w EXCEPT !.present = <<PresentCreated(w.id, answer[1], w.size, serial)>>]
    ELSE [w EXCEPT !.present = <<PresentRebuilt(w.present[1], serial)>>]

\* Variant of RecreateSwapchainFailed that leaves the window clean.
RecreateSwapchainFailedClearsFlag(w) ==
    [w EXCEPT !.should_recreate_swapchain = FALSE]

\* AspenWindow::recreate_swapchain leaving the None arm early, by `?` or by
\* the panic of `[0]`: self.present is assigned only after Swapchain::new has
\* succeeded, and no field is assigned before that.
RecreateSwapchainFailed(w) == w

\* windows.iter().position(|window| window.lock().unwrap().id() == id):
\* 0 when there is none, else the 1-based place.
WindowIndFromId(windows, id) ==
    IF \E k \in 1..Len(windows) : windows[k].id = id
    THEN CHOOSE k \in 1..Len(windows) :
            /\ windows[k].id = id
            /\ \A j \in 1..(k - 1) : windows[j].id # id
    ELSE 0

\* windows.remove(window_ind)
RemoveAt(windows, k) ==
    [j \in 1..(Len(windows) - 1) |-> IF j < k THEN windows[j] ELSE windows[j + 1]]

\* Faulty variant of WindowsAfterClose: the wrong index is removed.
WindowsAfterCloseRemovesFirst(windows, k) ==
    IF k = 1 THEN <<>> ELSE RemoveAt(windows, 2)

\* The CloseRequested arm for a window found at place k (index k - 1).
WindowsAfterClose(windows, k) ==
    IF k = 1 THEN <<>> ELSE RemoveAt(windows, k)

\* One operation on the Mutex of windows[k] (Graphics::windows is a
\* Vec<Arc<Mutex<AspenWindow>>>: one Mutex per window).
LockOp(op, k) == [op |-> op, window |-> k]

\* windows.iter().position(|window| window.lock().unwrap().id() == id): the
\* closure locks one window, compares, and drops the guard on return; it is
\* called for the windows in order up to the first match.
RECURSIVE PositionLockOps(_)
PositionLockOps(n) ==
    IF n = 0 THEN <<>>
    ELSE PositionLockOps(n - 1) \o <<LockOp("lock", n), LockOp("unlock", n)>>

\* The number of windows the position closure is called for.
PositionProbes(windows, id) ==
    IF WindowIndFromId(windows, id) = 0 THEN Len(windows)
    ELSE WindowIndFromId(windows, id)

\* Variant of EngLockOps: the guard taken for the RedrawRequested condition
\* lives to the end of the if block.
EngLockOpsGuardKept(event, windows, id) ==
    LET k == WindowIndFromId(windows, id)
        found == PositionLockOps(PositionProbes(windows, id))
    IN  CASE event = "CloseRequested" -> found
          [] event = "Resized" ->
                found \o (IF k = 0 THEN <<>>
                          ELSE <<LockOp("lock", k), LockOp("unlock", k)>>)
          [] event = "RedrawRequested" ->
                found \o
                (IF k = 0 THEN <<>>
                 ELSE IF windows[k].should_recreate_swapchain
                 THEN <<LockOp("lock", k), LockOp("lock", k),
                        LockOp("unlock", k), LockOp("unlock", k)>>
                 ELSE <<LockOp("lock", k), LockOp("unlock", k)>>)
          [] OTHER -> <<>>

\* The Mutex operations of one call of the closure, in order. Each
\* window.lock().unwrap() is a temporary: the guard of the Resized statement
\* drops at its end, the guard of the RedrawRequested if condition drops
\* before the block runs, and the block's own guard drops at the end of the
\* recreate_swapchain(..).expect(..) statement. A lookup that finds nothing
\* panics at unwrap() with no guard alive.
EngLockOps(event, windows, id) ==
    LET k == WindowIndFromId(windows, id)
        found == PositionLockOps(PositionProbes(windows, id))
    IN  CASE event = "CloseRequested" -> found
          [] event = "Resized" ->
                found \o (IF k = 0 THEN <<>>
                          ELSE <<LockOp("lock", k), LockOp("unlock", k)>>)
          [] event = "RedrawRequested" ->
                found \o
                (IF k = 0 THEN <<>>
                 ELSE <<LockOp("lock", k), LockOp("unlock", k)>> \o
                      (IF windows[k].should_recreate_swapchain
                       THEN <<LockOp("lock", k), LockOp("unlock", k)>>
                       ELSE <<>>))
          [] OTHER -> <<>>

\* The functions an update can be made of: one that only works on the
\* application, and one that also calls Application::exit.
UpdateFuncs == {"tick", "exit"}

\* Variant of RunUpdateFuncs that runs the functions last to first.
RECURSIVE RunUpdateFuncsBackwards(_, _)
RunUpdateFuncsBackwards(funcs, i) ==
    IF i > Len(funcs) THEN <<>>
    ELSE RunUpdateFuncsBackwards(funcs, i + 1)
            \o <<[func |-> funcs[i], place |-> i]>>

\* for func in self.update_funcs.iter() { (func)(&mut self.application) },
\* from place i on: the calls made, in order.
RECURSIVE RunUpdateFuncs(_, _)
RunUpdateFuncs(funcs, i) ==
    IF i > Len(funcs) THEN <<>>
    ELSE <<[func |-> funcs[i], place |-> i]>> \o RunUpdateFuncs(funcs, i + 1)

\* Application::exit: one Shutdown event is posted by every call; the
\* number of them posted by calls.
RECURSIVE ShutdownsPostedBy(_)
ShutdownsPostedBy(calls) ==
    IF calls = <<>> THEN 0
    ELSE (IF Head(calls).func = "exit" THEN 1 ELSE 0)
            + ShutdownsPostedBy(Tail(calls))

\* One handled event: the event, the window id it carries, the runtime's
\* answer, the window list before and after, the loop's status, the
\* Mutex operations of the call and the update functions it ran.
EngEntry(event, id, result, pre, post, status) ==
    [event |-> event, id |-> id, result |-> result,
     pre |-> pre, post |-> post, status |-> status,
     locks |-> EngLockOps(event, pre, id),
     calls |-> IF event = "Update" THEN RunUpdateFuncs(engUpdateFuncs, 1)
                                   ELSE <<>>]

\* AppBuilder::new: graphics is None, so there is no window list yet
\* (engWindows is <<>> while engGraphics is FALSE).
EngInit ==
    /\ engGraphics = FALSE
    /\ engUpdateFuncs = <<>>
    /\ engShutdown = 0
    /\ engWindows = <<>>
    /\ engStatus = "setup"
    /\ engNextId = 0
    /\ engPosted = 0
    /\ engEvents = 0
    /\ engLast = <<>>
    /\ engControlFlow = "Wait"

\* Graphics::new returning Ok: windows: vec![main_window].
GraphicsNewWindows(id) == <<AspenWindowNew(id, DefaultExtent)>>

\* use_graphics on an application without graphics; ok is whether
\* Graphics::new succeeds. On Err graphics stays None.
EngUseGraphics ==
    /\ engStatus = "setup"
    /\ ~engGraphics
    /\ \E ok \in BOOLEAN :
          IF ok
          THEN /\ engGraphics' = TRUE
               /\ engWindows' = GraphicsNewWindows(engNextId)
               /\ engNextId' = engNextId + 1
          ELSE UNCHANGED <<engGraphics, engWindows, engNextId>>
    /\ UNCHANGED <<engStatus, engPosted, engEvents, engLast, engControlFlow,
                   engUpdateFuncs, engShutdown>>
    /\ UNCHANGED <<fwVars, stVars, simVars>>

\* Variant of AddWindow that puts the new window first.
AddWindowAtFront(windows, w) == <<w>> \o windows

\* Graphics::add_window returning Ok: self.windows.push(..)
AddWindow(windows, w) == Append(windows, w)

\* Variant of OpenWindow: a failed creation still adds a window.
OpenWindowAddsOnFailure(graphics, windows, id, ok) ==
    IF ~graphics THEN [result |-> "GraphicsAbsent", windows |-> windows]
    ELSE IF ~ok THEN [result |-> "WindowCreationFailed",
                      windows |-> AddWindow(windows, AspenWindowNew(id, DefaultExtent))]
    ELSE [result |-> "Ok",
          windows |-> AddWindow(windows, AspenWindowNew(id, DefaultExtent))]

\* Engine::open_window: what it returns and the window list after it.
\*  graphics None: Err(io::Error), nothing touched;
\*  add_window fails (ok is whether AspenWindow::new succeeds): the `?` in
\*    add_window returns before the push, the error is logged and returned;
\*  else the new window is pushed.
OpenWindow(graphics, windows, id, ok) ==
    IF ~graphics THEN [result |-> "GraphicsAbsent", windows |-> windows]
    ELSE IF ~ok THEN [result |-> "WindowCreationFailed", windows |-> windows]
    ELSE [result |-> "Ok",
          windows |-> AddWindow(windows, AspenWindowNew(id, DefaultExtent))]

\* Engine::open_window, called before Engine::run.
EngOpenWindow ==
    /\ engStatus = "setup"
    /\ engNextId < MaxWindows
    /\ \E ok \in BOOLEAN :
          LET out == OpenWindow(engGraphics, engWindows, engNextId, ok)
          IN  /\ engWindows' = out.windows
              /\ engNextId' = IF out.result = "Ok" THEN engNextId + 1 ELSE engNextId
              /\ engLast' = <<
                    EngEntry("open_window", engNextId, out.result, engWindows,
                             engWindows', "setup")>>
    /\ UNCHANGED <<engStatus, engPosted, engEvents, engControlFlow>>
    /\ UNCHANGED <<engGraphics, engUpdateFuncs, engShutdown>>
    /\ UNCHANGED <<fwVars, stVars, simVars>>

\* AppBuilder::add_update_func: self.update_funcs.push(func)
EngAddUpdateFunc ==
    /\ engStatus = "setup"
    /\ Len(engUpdateFuncs) < MaxUpdateFuncs
    /\ \E func \in UpdateFuncs : engUpdateFuncs' = Append(engUpdateFuncs, func)
    /\ UNCHANGED <<engWindows, engStatus, engNextId, engPosted, engEvents,
                   engLast, engControlFlow, engGraphics, engShutdown>>
    /\ UNCHANGED <<fwVars, stVars, simVars>>

\* Engine::run: the event loop starts.
EngRun ==
    /\ engStatus = "setup"
    /\ engStatus' = "running"
    /\ UNCHANGED <<engWindows, engNextId, engPosted, engEvents, engLast,
                   engControlFlow>>
    /\ UNCHANGED <<engGraphics, engUpdateFuncs, engShutdown>>
    /\ UNCHANGED <<fwVars, stVars, simVars>>

\* elwt.set_control_flow(ControlFlow::Poll), the first statement of the
\* closure; the loop starts with winit's default, ControlFlow::Wait.
SetControlFlow == "Poll"

\* The windows on which the arm for event calls Window::request_redraw: no
\* arm of the closure does.
EngRedrawRequestsOf(event, windows) == {}

\* The closure is called while the loop runs.
EngCanHandle == engStatus = "running" /\ engEvents < MaxEngEvents

\* Window ids that events can carry: every window ever created.
EngIds == 0..(engNextId - 1)

\* WindowEvent::CloseRequested
EngCloseRequested ==
    /\ EngCanHandle
    /\ \E id \in EngIds :
          LET k == WindowIndFromId(engWindows, id)
          IN  /\ engWindows' = IF k = 0 THEN engWindows
                                        ELSE WindowsAfterClose(engWindows, k)
              /\ engStatus' = IF k = 1 THEN "exited" ELSE "running"
              /\ engLast' = <<
                    EngEntry("CloseRequested", id, "none", engWindows, engWindows',
                             engStatus')>>
    /\ engEvents' = engEvents + 1
    /\ engControlFlow' = SetControlFlow
    /\ UNCHANGED <<engNextId, engPosted>>
    /\ UNCHANGED <<engGraphics, engUpdateFuncs, engShutdown>>
    /\ UNCHANGED <<fwVars, stVars, simVars>>

\* WindowEvent::Resized(_): window_from_id(..).unwrap() panics when the id is
\* not in the list.
EngResized ==
    /\ EngCanHandle
    /\ \E id \in EngIds, size \in Extents :
          LET k == WindowIndFromId(engWindows, id)
          IN  /\ engWindows' = IF k = 0 THEN engWindows
                               ELSE [engWindows EXCEPT ![k] =
                                       SetRecreateSwapchain([@ EXCEPT !.size = size])]
              /\ engStatus' = IF k = 0 THEN "panicked" ELSE "running"
              /\ engLast' = <<
                    EngEntry("Resized", id, "none", engWindows, engWindows', engStatus')>>
    /\ engEvents' = engEvents + 1
    /\ engControlFlow' = SetControlFlow
    /\ UNCHANGED <<engNextId, engPosted>>
    /\ UNCHANGED <<engGraphics, engUpdateFuncs, engShutdown>>
    /\ UNCHANGED <<fwVars, stVars, simVars>>

\* The number of views built so far, to number the next ones.
EngSerial == engEvents + 1

\* WindowEvent::RedrawRequested: window_ind_from_id(..).unwrap() panics when
\* the id is not in the list; recreate_swapchain(..).expect(..) panics on Err;
\* then an Update event is posted.
EngRedrawRequested ==
    /\ EngCanHandle
    /\ \E id \in EngIds :
          LET k == WindowIndFromId(engWindows, id)
          IN  IF k = 0
              THEN /\ engStatus' = "panicked"
                   /\ engLast' = <<
                         EngEntry("RedrawRequested", id, "none", engWindows, engWindows,
                                  "panicked")>>
                   /\ UNCHANGED <<engWindows, engPosted>>
              ELSE IF ~engWindows[k].should_recreate_swapchain
              THEN /\ engPosted' = engPosted + 1
                   /\ engLast' = <<
                         EngEntry("RedrawRequested", id, "none", engWindows, engWindows,
                                  "running")>>
                   /\ UNCHANGED <<engWindows, engStatus>>
              ELSE IF engWindows[k].present # <<>>
              THEN /\ engWindows' = [engWindows EXCEPT ![k] =
                                       RecreateSwapchain(@, EngSerial, <<>>)]
                   /\ engPosted' = engPosted + 1
                   /\ engLast' = <<
                         EngEntry("RedrawRequested", id, "Ok", engWindows, engWindows',
                                  "running")>>
                   /\ UNCHANGED engStatus
              ELSE \E result \in CreateResultsFor(engWindows[k].size),
                      answer \in SurfaceAnswers :
                   IF result = "Ok"
                   THEN /\ engWindows' = [engWindows EXCEPT ![k] =
                                            RecreateSwapchain(@, EngSerial, <<answer>>)]
                        /\ engPosted' = engPosted + 1
                        /\ engLast' = <<
                              EngEntry("RedrawRequested", id, "Ok", engWindows, engWindows',
                                       "running")>>
                        /\ UNCHANGED engStatus
                   ELSE /\ engWindows' = [engWindows EXCEPT ![k] =
                                            RecreateSwapchainFailed(@)]
                        /\ engStatus' = "panicked"
                        /\ engLast' = <<
                              EngEntry("RedrawRequested", id, result, engWindows, engWindows',
                                       "panicked")>>
                        /\ UNCHANGED engPosted
    /\ engEvents' = engEvents + 1
    /\ engControlFlow' = SetControlFlow
    /\ UNCHANGED engNextId
    /\ UNCHANGED <<engGraphics, engUpdateFuncs, engShutdown>>
    /\ UNCHANGED <<fwVars, stVars, simVars>>

\* Event::AboutToWait: an Update event is posted.
EngAboutToWait ==
    /\ EngCanHandle
    /\ engPosted' = engPosted + 1
    /\ engLast' = <<
          EngEntry("AboutToWait", 0, "none", engWindows, engWindows, "running")>>
    /\ engEvents' = engEvents + 1
    /\ engControlFlow' = SetControlFlow
    /\ UNCHANGED <<engWindows, engStatus, engNextId>>
    /\ UNCHANGED <<engGraphics, engUpdateFuncs, engShutdown>>
    /\ UNCHANGED <<fwVars, stVars, simVars>>

\* Event::UserEvent(GlobalEvent::Update): the update functions run.
EngUpdate ==
    /\ EngCanHandle
    /\ engPosted > 0
    /\ engPosted' = engPosted - 1
    /\ engLast' = <<
          EngEntry("Update", 0, "none", engWindows, engWindows, "running")>>
    /\ engShutdown' = engShutdown + ShutdownsPostedBy(engLast'[1].calls)
    /\ engEvents' = engEvents + 1
    /\ engControlFlow' = SetControlFlow
    /\ UNCHANGED <<engWindows, engStatus, engNextId>>
    /\ UNCHANGED <<engGraphics, engUpdateFuncs>>
    /\ UNCHANGED <<fwVars, stVars, simVars>>

\* Event::UserEvent(GlobalEvent::Shutdown): elwt.exit(). A posted event is
\* delivered however many events were handled before it.
EngShutdown ==
    /\ engStatus = "running"
    /\ engShutdown > 0
    /\ engShutdown' = engShutdown - 1
    /\ engStatus' = "exited"
    /\ engLast' = <<
          EngEntry("Shutdown", 0, "none", engWindows, engWindows, "exited")>>
    /\ engControlFlow' = SetControlFlow
    /\ UNCHANGED <<engWindows, engNextId, engPosted, engEvents, engGraphics,
                   engUpdateFuncs>>
    /\ UNCHANGED <<fwVars, stVars, simVars>>

EngNext ==
    \/ EngUseGraphics
    \/ EngOpenWindow
    \/ EngRun
    \/ EngCloseRequested
    \/ EngResized
    \/ EngRedrawRequested
    \/ EngAboutToWait
    \/ EngUpdate

---------------------------------------------------------------------------
(* Start-up: Graphics::new (src/graphics/mod.rs), Framework::new           *)
(* (extras/th/framework.rs)                                                *)

\* PhysicalDeviceType, with "Unknown" for the `_` arm of the match.
DeviceTypes == {"DiscreteGpu", "IntegratedGpu", "VirtualGpu", "Cpu", "Other", "Unknown"}

\* What a physical device reports besides its type: whether api_version() is
\* at least 1.3, whether it supports khr_dynamic_rendering and khr_swapchain,
\* and its queue families: graphics is QueueFlags::GRAPHICS, present is what
\* surface_support answers for the main window's surface ("err": the query
\* fails). These three pass both filters and have a family that suits.
SuitableProfiles ==
    {[api13 |-> TRUE, khr_dynamic_rendering |-> FALSE, khr_swapchain |-> TRUE,
      families |-> <<[graphics |-> TRUE, present |-> "true"]>>],
     [api13 |-> TRUE, khr_dynamic_rendering |-> TRUE, khr_swapchain |-> TRUE,
      families |-> <<[graphics |-> TRUE, present |-> "false"],
                     [graphics |-> TRUE, present |-> "true"]>>],
     [api13 |-> FALSE, khr_dynamic_rendering |-> TRUE, khr_swapchain |-> TRUE,
      families |-> <<[graphics |-> TRUE, present |-> "err"],
                     [graphics |-> FALSE, present |-> "true"],
                     [graphics |-> TRUE, present |-> "true"]>>]}

\* One profile for each way of being dropped: by the first filter, by the
\* second, and for want of a family that suits.
UnsuitableProfiles ==
    {[api13 |-> FALSE, khr_dynamic_rendering |-> FALSE, khr_swapchain |-> TRUE,
      families |-> <<[graphics |-> TRUE, present |-> "true"]>>],
     [api13 |-> TRUE, khr_dynamic_rendering |-> TRUE, khr_swapchain |-> FALSE,
      families |-> <<[graphics |-> TRUE, present |-> "true"]>>],
     [api13 |-> TRUE, khr_dynamic_rendering |-> TRUE, khr_swapchain |-> TRUE,
      families |-> <<[graphics |-> TRUE, present |-> "err"],
                     [graphics |-> FALSE, present |-> "true"]>>]}

\* A physical device of type t with profile p.
PhysicalDevice(t, p) ==
    [device_type |-> t, api13 |-> p.api13,
     khr_dynamic_rendering |-> p.khr_dynamic_rendering,
     khr_swapchain |-> p.khr_swapchain, families |-> p.families]

\* The devices an enumeration is drawn from: every type with every suitable
\* profile, and the most preferred type with every unsuitable one.
PhysicalDevices ==
    {PhysicalDevice(t, p) : t \in DeviceTypes, p \in SuitableProfiles}
        \cup {PhysicalDevice("DiscreteGpu", p) : p \in UnsuitableProfiles}

\* What enumerate_physical_devices() can yield, in enumeration order.
DeviceLists == UNION {[1..n -> PhysicalDevices] : n \in 0..MaxDevices}

\* .filter(|p| p.api_version() >= Version::V1_3
\*             || p.supported_extensions().khr_dynamic_rendering)
HasDynamicRendering(p) == p.api13 \/ p.khr_dynamic_rendering

\* .filter(|p| p.supported_extensions().contains(&vk_device_extensions)),
\* with vk_device_extensions = { khr_swapchain }
HasDeviceExtensions(p) == p.khr_swapchain

\* p.surface_support(i, surface).unwrap_or(false)
SurfaceSupportOrFalse(q) == q.present = "true"

\* Variant of FamilySuits that does not ask for present support.
FamilySuitsGraphicsOnly(q) == q.graphics

\* q.queue_flags.intersects(QueueFlags::GRAPHICS) && surface_support(..)
FamilySuits(q) == q.graphics /\ SurfaceSupportOrFalse(q)

\* .position(..) over the families from place i on: <<>> for None, else the
\* 0-based index of the first family that suits.
RECURSIVE FamilyPosition(_, _)
FamilyPosition(families, i) ==
    IF i > Len(families) THEN <<>>
    ELSE IF FamilySuits(families[i]) THEN <<i - 1>>
    ELSE FamilyPosition(families, i + 1)

\* The two filters and the filter_map over the devices from place i on: the
\* surviving (device, queue family index) pairs in enumeration order; index
\* is the device's place in the enumeration.
RECURSIVE Survivors(_, _)
Survivors(devices, i) ==
    IF i > Len(devices) THEN <<>>
    ELSE LET p == devices[i]
             pos == FamilyPosition(p.families, 1)
         IN  IF HasDynamicRendering(p) /\ HasDeviceExtensions(p) /\ pos # <<>>
             THEN <<[index |-> i, device |-> p, family |-> pos[1]]>>
                     \o Survivors(devices, i + 1)
             ELSE Survivors(devices, i + 1)

\* Variant of DeviceTypeKey that prefers integrated to discrete GPUs.
DeviceTypeKeyIntegratedFirst(t) ==
    CASE t = "DiscreteGpu" -> 1
      [] t = "IntegratedGpu" -> 0
      [] t = "VirtualGpu" -> 2
      [] t = "Cpu" -> 3
      [] t = "Other" -> 4
      [] OTHER -> 5

\* The key of min_by_key.
DeviceTypeKey(t) ==
    CASE t = "DiscreteGpu" -> 0
      [] t = "IntegratedGpu" -> 1
      [] t = "VirtualGpu" -> 2
      [] t = "Cpu" -> 3
      [] t = "Other" -> 4
      [] OTHER -> 5

\* Variant of MinByKeyFrom that takes the next element on an equal key too.
RECURSIVE MinByKeyFromKeepsLast(_, _, _)
MinByKeyFromKeepsLast(best, candidates, i) ==
    IF i > Len(candidates) THEN best
    ELSE IF DeviceTypeKey(candidates[i].device.device_type)
              <= DeviceTypeKey(best.device.device_type)
         THEN MinByKeyFromKeepsLast(candidates[i], candidates, i + 1)
         ELSE MinByKeyFromKeepsLast(best, candidates, i + 1)

\* Iterator::min_by_key: a fold that keeps the element it holds unless the
\* next one has a strictly smaller key.
RECURSIVE MinByKeyFrom(_, _, _)
MinByKeyFrom(best, candidates, i) ==
    IF i > Len(candidates) THEN best
    ELSE IF DeviceTypeKey(candidates[i].device.device_type)
              < DeviceTypeKey(best.device.device_type)
         THEN MinByKeyFrom(candidates[i], candidates, i + 1)
         ELSE MinByKeyFrom(best, candidates, i + 1)

\* p_opt: None when nothing survives.
SelectPhysicalDevice(devices) ==
    LET candidates == Survivors(devices, 1)
    IN  IF candidates = <<>> THEN <<>>
        ELSE <<MinByKeyFrom(candidates[1], candidates, 2)>>

\* Variant of DeviceExtensionsFor that enables khr_dynamic_rendering whenever
\* the device supports it.
DeviceExtensionsForWhenSupported(p) ==
    IF p.khr_dynamic_rendering THEN {"khr_swapchain", "khr_dynamic_rendering"}
    ELSE {"khr_swapchain"}

\* vk_device_extensions when Device::new is called: khr_swapchain, and
\* khr_dynamic_rendering when api_version() < Version::V1_3.
DeviceExtensionsFor(p) ==
    IF ~p.api13 THEN {"khr_swapchain", "khr_dynamic_rendering"}
    ELSE {"khr_swapchain"}

\* The DeviceCreateInfo passed to Device::new.
DeviceCreateInfoFor(selected) ==
    [queue_create_infos |-> <<selected.family>>,
     enabled_extensions |-> DeviceExtensionsFor(selected.device),
     enabled_features |-> {"dynamic_rendering"}]

\* The steps of the two constructors, in program order.
StSteps(program) ==
    IF program = "Graphics"
    THEN <<"library", "instance", "main_window", "enumerate", "select",
           "device", "queue">>
    ELSE <<"event_loop", "library", "instance", "window", "surface",
           "enumerate", "select", "device", "queue", "surface_capabilities",
           "surface_formats", "swapchain">>

\* Variant of StErrorOf: a missing queue is reported with the device-creation
\* error type.
StErrorOfQueueAsDevice(program, step) ==
    IF program = "Graphics"
    THEN CASE step = "library" -> "FailedToGetVKLibrary"
           [] step = "instance" -> "FailedToCreateVKInstance"
           [] step = "main_window" -> "FailedToCreateMainWindow"
           [] step = "enumerate" -> "CouldNotEnumerateGraphicsDevices"
           [] step = "select" -> "NoSuitableGPU"
           [] step = "device" -> "DeviceOrQueueCreationFailed"
           [] step = "queue" -> "DeviceOrQueueCreationFailed"
    ELSE CASE step = "event_loop" -> "EventLoopCreationFailed"
           [] step = "library" -> "VulkanMissing"
           [] step = "instance" -> "VulkanInstanceCreationFailed"
           [] step = "window" -> "WindowCreationFailed"
           [] step = "surface" -> "VulkanSurfaceCreationFailed"
           [] step = "enumerate" -> "VulkanPhysicalDeviceEnumerationFailed"
           [] step = "select" -> "NoSuitableVulkanPhysicalDevices"
           [] step = "device" -> "VulkanDeviceCreationFailed"
           [] step = "surface_capabilities" -> "GetSurfaceCapabilitiesFailed"
           [] step = "surface_formats" -> "GetSurfaceFormatFailed"
           [] step = "composite_alpha" -> "GetSurfaceCompositeAlphaFailed"
           [] step = "swapchain" -> "VulkanSwapchainCreationFailed"

\* The error type each constructor returns when a step fails.
StErrorOf(program, step) ==
    IF program = "Graphics"
    THEN CASE step = "library" -> "FailedToGetVKLibrary"
           [] step = "instance" -> "FailedToCreateVKInstance"
           [] step = "main_window" -> "FailedToCreateMainWindow"
           [] step = "enumerate" -> "CouldNotEnumerateGraphicsDevices"
           [] step = "select" -> "NoSuitableGPU"
           [] step = "device" -> "DeviceOrQueueCreationFailed"
           [] step = "queue" -> "NoGraphicsQueueAvailable"
    ELSE CASE step = "event_loop" -> "EventLoopCreationFailed"
           [] step = "library" -> "VulkanMissing"
           [] step = "instance" -> "VulkanInstanceCreationFailed"
           [] step = "window" -> "WindowCreationFailed"
           [] step = "surface" -> "VulkanSurfaceCreationFailed"
           [] step = "enumerate" -> "VulkanPhysicalDeviceEnumerationFailed"
           [] step = "select" -> "NoSuitableVulkanPhysicalDevices"
           [] step = "device" -> "VulkanDeviceCreationFailed"
           [] step = "surface_capabilities" -> "GetSurfaceCapabilitiesFailed"
           [] step = "surface_formats" -> "GetSurfaceFormatFailed"
           [] step = "composite_alpha" -> "GetSurfaceCompositeAlphaFailed"
           [] step = "swapchain" -> "VulkanSwapchainCreationFailed"

\* The step after step; "done" after the last: the constructor returns Ok.
StAfter(program, step) ==
    LET steps == StSteps(program)
        k == CHOOSE j \in DOMAIN steps : steps[j] = step
    IN  IF k = Len(steps) THEN "done" ELSE steps[k + 1]

\* A constructor's outcome and the step that produced it: Err(error type),
\* a panic, or Ok(the object).
StErr(program, step) ==
    <<[kind |-> "Err", step |-> step, error |-> StErrorOf(program, step)]>>
StPanic(step) == <<[kind |-> "panic", step |-> step, error |-> "none"]>>
StOk(step) == <<[kind |-> "Ok", step |-> step, error |-> "none"]>>

\* AspenLogger::new: no record yet, nothing written to the file.
AspenLoggerNew == [logs |-> <<>>, file |-> <<>>, dropped |-> FALSE]

\* AspenLogger::log: logs.push(error.to_string()).
AspenLoggerLog(logger, records) == [logger EXCEPT !.logs = @ \o records]

\* Drop for AspenLogger: write_all() writes the serialised logs to the file.
AspenLoggerDrop(logger) ==
    [logger EXCEPT !.file = Append(@, logger.logs), !.dropped = TRUE]

\* The records Graphics::new itself logs for a failure of step: its map_err
\* closures log for the library, the instance, the main window and the
\* enumeration; the later steps return their error without logging.
GraphicsNewLogs(step) ==
    IF step \in {"library", "instance", "main_window", "enumerate"}
    THEN <<StErrorOf("Graphics", step)>>
    ELSE <<>>

\* Variant of UseGraphicsLogs: the error is passed on without a record.
UseGraphicsLogsNothing(error) == <<>>

\* use_graphics: Graphics::new(..).map_err(|err| { self.logger.log(&err); err })?
UseGraphicsLogs(error) == <<error>>

\* The logger after a step that took the constructor's result from before to
\* after: an Err of Graphics::new is logged by Graphics::new and then by
\* use_graphics; Framework::new has no logger.
LoggedBy(program, before, after, logger) ==
    IF program = "Graphics" /\ after # before /\ after # <<>>
          /\ after[1].kind = "Err"
    THEN AspenLoggerLog(logger, GraphicsNewLogs(after[1].step)
                                  \o UseGraphicsLogs(after[1].error))
    ELSE logger

StInit ==
    /\ stLogger = AspenLoggerNew
    /\ stProgram = "none"
    /\ stPc = "idle"
    /\ stDevices = <<>>
    /\ stSelected = <<>>
    /\ stRequest = <<>>
    /\ stSwapchain = <<>>
    /\ stResult = <<>>

\* Graphics::new or Framework::new is called.
StCall ==
    /\ stPc = "idle"
    /\ \E program \in {"Graphics", "Framework"} :
          /\ stProgram' = program
          /\ stPc' = StSteps(program)[1]
    /\ UNCHANGED <<stDevices, stSelected, stRequest, stSwapchain, stResult>>
    /\ stLogger' = LoggedBy(stProgram', stResult, stResult', stLogger)
    /\ UNCHANGED <<fwVars, engVars, simVars>>

\* A step that either succeeds or returns its error: the library, the
\* instance, the event loop, the window, its surface and the surface
\* capabilities.
StSimpleStep ==
    /\ stPc \in {"event_loop", "library", "instance", "main_window", "window",
                 "surface", "surface_capabilities"}
    /\ \E ok \in BOOLEAN :
          IF ok
          THEN /\ stPc' = StAfter(stProgram, stPc)
               /\ UNCHANGED stResult
          ELSE /\ stPc' = "failed"
               /\ stResult' = StErr(stProgram, stPc)
    /\ UNCHANGED <<stProgram, stDevices, stSelected, stRequest, stSwapchain>>
    /\ stLogger' = LoggedBy(stProgram', stResult, stResult', stLogger)
    /\ UNCHANGED <<fwVars, engVars, simVars>>

\* vk_instance.enumerate_physical_devices(): stDevices is <<>> until it has
\* succeeded, then <<the devices in enumeration order>>.
StEnumerate ==
    /\ stPc = "enumerate"
    /\ \/ /\ stPc' = "failed"
          /\ stResult' = StErr(stProgram, "enumerate")
          /\ UNCHANGED stDevices
       \/ /\ \E devices \in DeviceLists : stDevices' = <<devices>>
          /\ stPc' = "select"
          /\ UNCHANGED stResult
    /\ UNCHANGED <<stProgram, stSelected, stRequest, stSwapchain>>
    /\ stLogger' = LoggedBy(stProgram', stResult, stResult', stLogger)
    /\ UNCHANGED <<fwVars, engVars, simVars>>

\* The selection over the enumerated devices, and the extensions and the
\* create info computed for the device it picks.
StSelect ==
    /\ stPc = "select"
    /\ LET p_opt == SelectPhysicalDevice(stDevices[1])
       IN  IF p_opt = <<>>
           THEN /\ stPc' = "failed"
                /\ stResult' = StErr(stProgram, "select")
                /\ UNCHANGED <<stSelected, stRequest>>
           ELSE /\ stSelected' = p_opt
                /\ stRequest' = <<DeviceCreateInfoFor(p_opt[1])>>
                /\ stPc' = "device"
                /\ UNCHANGED stResult
    /\ UNCHANGED <<stProgram, stDevices, stSwapchain>>
    /\ stLogger' = LoggedBy(stProgram', stResult, stResult', stLogger)
    /\ UNCHANGED <<fwVars, engVars, simVars>>

\* Device::new(..)
StCreateDevice ==
    /\ stPc = "device"
    /\ \E ok \in BOOLEAN :
          IF ok
          THEN /\ stPc' = "queue"
               /\ UNCHANGED stResult
          ELSE /\ stPc' = "failed"
               /\ stResult' = StErr(stProgram, "device")
    /\ UNCHANGED <<stProgram, stDevices, stSelected, stRequest, stSwapchain>>
    /\ stLogger' = LoggedBy(stProgram', stResult, stResult', stLogger)
    /\ UNCHANGED <<fwVars, engVars, simVars>>

\* What a constructor does when vk_queues.next() is None: Graphics::new
\* returns NoGraphicsQueueAvailable, Framework::new panics in expect().
StQueueMissing(program) ==
    IF program = "Graphics" THEN StErr(program, "queue") ELSE StPanic("queue")

\* vk_queues.next()
StFetchQueue ==
    /\ stPc = "queue"
    /\ \E some \in BOOLEAN :
          IF some
          THEN /\ stPc' = StAfter(stProgram, "queue")
               /\ stResult' = IF stProgram = "Graphics" THEN StOk("queue")
                                                           ELSE stResult
          ELSE /\ stPc' = "failed"
               /\ stResult' = StQueueMissing(stProgram)
    /\ UNCHANGED <<stProgram, stDevices, stSelected, stRequest, stSwapchain>>
    /\ stLogger' = LoggedBy(stProgram', stResult, stResult', stLogger)
    /\ UNCHANGED <<fwVars, engVars, simVars>>

\* surface_formats(..): Err, an empty list (`[0]` panics) or a first format.
StSurfaceFormats ==
    /\ stPc = "surface_formats"
    /\ \E answer \in {"Err", "empty", "some"} :
          CASE answer = "Err" ->
                  /\ stPc' = "failed"
                  /\ stResult' = StErr(stProgram, "surface_formats")
            [] answer = "empty" ->
                  /\ stPc' = "failed"
                  /\ stResult' = StPanic("surface_formats")
            [] OTHER ->
                  /\ stPc' = "swapchain"
                  /\ UNCHANGED stResult
    /\ UNCHANGED <<stProgram, stDevices, stSelected, stRequest, stSwapchain>>
    /\ stLogger' = LoggedBy(stProgram', stResult, stResult', stLogger)
    /\ UNCHANGED <<fwVars, engVars, simVars>>

\* Swapchain::new(..) in Framework::new, for a surface that reports
\* min_image_count: no composite alpha, creation rejected, or created.
StCreateSwapchain ==
    /\ stPc = "swapchain"
    /\ \E answer \in {"no_composite_alpha", "Err", "Ok"},
          min_image_count \in 1..MaxMinImageCount :
          CASE answer = "no_composite_alpha" ->
                  /\ stPc' = "failed"
                  /\ stResult' = StErr(stProgram, "composite_alpha")
                  /\ UNCHANGED stSwapchain
            [] answer = "Err" ->
                  /\ stPc' = "failed"
                  /\ stResult' = StErr(stProgram, "swapchain")
                  /\ UNCHANGED stSwapchain
            [] OTHER ->
                  /\ stPc' = "done"
                  /\ stResult' = StOk("swapchain")
                  /\ stSwapchain' =
                        <<[reported_min_image_count |-> min_image_count,
                           swapchain |->
                              SwapchainCreated(
                                 "main_window_surface",
                                 [min_image_count |-> min_image_count,
                                  image_format |-> "B8G8R8A8_SRGB"],
                                 DefaultExtent)]>>
    /\ UNCHANGED <<stProgram, stDevices, stSelected, stRequest>>
    /\ stLogger' = LoggedBy(stProgram', stResult, stResult', stLogger)
    /\ UNCHANGED <<fwVars, engVars, simVars>>

\* The owner of the logger (the AppBuilder consumed by a failed
\* use_graphics, or the Engine at the end of the program) goes out of scope:
\* the logger is dropped, once.
StDropLogger ==
    /\ stProgram = "Graphics"
    /\ stPc \in {"failed", "done"}
    /\ ~stLogger.dropped
    /\ stLogger' = AspenLoggerDrop(stLogger)
    /\ UNCHANGED <<stProgram, stPc, stDevices, stSelected, stRequest,
                   stSwapchain, stResult>>
    /\ UNCHANGED <<fwVars, engVars, simVars>>

StNext ==
    \/ StCall
    \/ StSimpleStep
    \/ StEnumerate
    \/ StSelect
    \/ StCreateDevice
    \/ StFetchQueue
    \/ StSurfaceFormats
    \/ StCreateSwapchain
    \/ StDropLogger

---------------------------------------------------------------------------
(* The example simulation: the update functions of test/main.rs *)

\* A spawned entity of a team: (Health(health), Ammo(ammo), team marker);
\* id stands for its hecs Entity.
SimEntity(id, health, ammo) == [id |-> id, health |-> health, ammo |-> ammo]

\* u8 subtraction of 1, as a release build computes it.
U8Dec(x) == (x + 255) % 256

\* Variant of ShootFrom that does not look at the shooter's ammo.
RECURSIVE ShootFromUnchecked(_, _, _, _)
ShootFromUnchecked(shooters, targets, i, fired) ==
    IF i > Len(shooters) THEN [team |-> shooters, bullets |-> <<>>]
    ELSE IF fired + 1 > Len(targets)
         THEN [team |-> shooters, bullets |-> <<>>]
         ELSE LET rest == ShootFromUnchecked(
                             [shooters EXCEPT ![i].ammo = U8Dec(@)],
                             targets, i + 1, fired + 1)
              IN  [team |-> rest.team,
                   bullets |-> <<targets[fired + 1].id>> \o rest.bullets]

\* One loop of the second update function, from shooter i on, when fired
\* targets have been taken from the other team's iterator: a shooter with
\* ammo takes the next target (the loop breaks when there is none), a
\* bullet for it is pushed and the shooter's ammo goes down by one.
RECURSIVE ShootFrom(_, _, _, _)
ShootFrom(shooters, targets, i, fired) ==
    IF i > Len(shooters) THEN [team |-> shooters, bullets |-> <<>>]
    ELSE IF shooters[i].ammo > 0
    THEN IF fired + 1 > Len(targets)
         THEN [team |-> shooters, bullets |-> <<>>]
         ELSE LET rest == ShootFrom([shooters EXCEPT ![i].ammo = U8Dec(@)],
                                    targets, i + 1, fired + 1)
              IN  [team |-> rest.team,
                   bullets |-> <<targets[fired + 1].id>> \o rest.bullets]
    ELSE ShootFrom(shooters, targets, i + 1, fired)

\* The place of the entity id in team, 0 when it is not there.
SimPlace(team, id) ==
    IF \E k \in DOMAIN team : team[k].id = id
    THEN CHOOSE k \in DOMAIN team : team[k].id = id
    ELSE 0

\* The loop of the third update function over the bullets aimed at team:
\* the target's health goes down by one unless it is 0, and a target whose
\* health is then 0 is put on the despawn list.
RECURSIVE HitBy(_, _)
HitBy(team, bullets) ==
    IF bullets = <<>> THEN [team |-> team, to_despawn |-> <<>>]
    ELSE LET k == SimPlace(team, Head(bullets))
             health == IF team[k].health > 0 THEN U8Dec(team[k].health)
                                             ELSE team[k].health
             rest == HitBy([team EXCEPT ![k].health = health], Tail(bullets))
         IN  [team |-> rest.team,
              to_despawn |-> (IF health = 0 THEN <<Head(bullets)>> ELSE <<>>)
                                \o rest.to_despawn]

\* World::despawn of the entities of ids, in order: an entity is taken out
\* of its archetype and the last one moves to its place; an id that is gone
\* is ignored (`_ = app.ecs.despawn(*id)`).
RECURSIVE Despawned(_, _)
Despawned(team, ids) ==
    IF ids = <<>> THEN team
    ELSE LET k == SimPlace(team, Head(ids))
             n == Len(team)
         IN  IF k = 0 THEN Despawned(team, Tail(ids))
             ELSE Despawned(
                    [j \in 1..(n - 1) |-> IF j = k THEN team[n] ELSE team[j]],
                    Tail(ids))

\* The sum the fourth update function makes of a team's ammo.
RECURSIVE RemainingAmmo(_)
RemainingAmmo(team) ==
    IF team = <<>> THEN 0 ELSE Head(team).ammo + RemainingAmmo(Tail(team))

\* The fourth update function's decision: <<>> when it returns without one.
Decision(red, blue) ==
    IF Len(red) + Len(blue) = 0 THEN <<"Draw">>
    ELSE IF Len(red) = 0 THEN <<"Blue">>
    ELSE IF Len(blue) = 0 THEN <<"Red">>
    ELSE IF RemainingAmmo(red) + RemainingAmmo(blue) = 0 THEN <<"Draw">>
    ELSE IF RemainingAmmo(red) = 0 THEN <<"Blue">>
    ELSE IF RemainingAmmo(blue) = 0 THEN <<"Red">>
    ELSE <<>>

\* The second, third and fourth update functions on the teams red and
\* blue, with persistent.result being result: the teams and the result
\* after them, and the number of calls of Application::exit.
Cycle(red, blue, result) ==
    LET redShot == ShootFrom(red, blue, 1, 0)
        blueShot == ShootFrom(blue, redShot.team, 1, 0)
        blueHit == HitBy(blueShot.team, redShot.bullets)
        redHit == HitBy(redShot.team, blueShot.bullets)
        redLeft == Despawned(redHit.team, redHit.to_despawn)
        blueLeft == Despawned(blueHit.team, blueHit.to_despawn)
    IN  [red |-> redLeft, blue |-> blueLeft,
         result |-> IF result = <<>> THEN Decision(redLeft, blueLeft) ELSE result,
         exits |-> IF result = <<>> /\ Decision(redLeft, blueLeft) # <<>>
                   THEN 1 ELSE 0]

\* The teams the first update function can spawn when update_count is 0.
SimTeams(first) ==
    UNION { { [k \in 1..n |-> SimEntity(first + k - 1, h[k], a[k])] :
                h \in [1..n -> 0..MaxHealth], a \in [1..n -> 0..MaxAmmo] } :
            n \in 1..MaxTeam }

\* AppBuilder::new(PersistentData { update_count: 0, result: None, .. }):
\* nothing is spawned yet.
SimInit ==
    /\ simRed = <<>>
    /\ simBlue = <<>>
    /\ simSpawned = FALSE
    /\ simResult = <<>>
    /\ simExits = 0
    /\ simStatus = "running"
    /\ simLast = <<>>

\* One Update event: the four update functions in registration order. The
\* first spawns the teams when update_count is 0; simLast keeps the teams
\* and the result the other three started from and ended with.
SimUpdate ==
    /\ simStatus = "running"
    /\ \E red \in (IF simSpawned THEN {simRed} ELSE SimTeams(1)),
          blue \in (IF simSpawned THEN {simBlue} ELSE SimTeams(MaxTeam + 1)) :
          LET out == Cycle(red, blue, simResult)
          IN  /\ simRed' = out.red
              /\ simBlue' = out.blue
              /\ simResult' = out.result
              /\ simExits' = simExits + out.exits
              /\ simLast' = <<[red |-> red, blue |-> blue, result |-> simResult,
                               after |-> out]>>
    /\ simSpawned' = TRUE
    /\ UNCHANGED simStatus
    /\ UNCHANGED <<fwVars, engVars, stVars>>

\* The Shutdown event posted by Application::exit is handled: the loop ends.
SimShutdown ==
    /\ simStatus = "running"
    /\ simExits > 0
    /\ simStatus' = "exited"
    /\ UNCHANGED <<simRed, simBlue, simSpawned, simResult, simExits, simLast>>
    /\ UNCHANGED <<fwVars, engVars, stVars>>

SimNext ==
    \/ SimUpdate
    \/ SimShutdown

---------------------------------------------------------------------------
(* Specifications *)

Init == FwInit /\ EngInit /\ StInit /\ SimInit

SpecFw == Init /\ [][FwNext]_vars

SpecEng == Init /\ [][EngNext]_vars

SpecStart == Init /\ [][StNext]_vars

\* A process runs one of the two loops: the Framework's closure is called
\* only while the Engine is as constructed, and the Engine is used only
\* while the Framework has handled no event.
FwAlone ==
    engStatus = "setup" /\ ~engGraphics /\ engLast = <<>> /\ engUpdateFuncs = <<>>
EngAlone == fwTrace = <<>>

RunNext ==
    \/ FwAlone /\ FwCloseRequested
    \/ FwAlone /\ FwResized
    \/ FwAlone /\ FwRedrawSkipped
    \/ FwAlone /\ FwRedrawRecreateFailed
    \/ FwAlone /\ FwRedrawAcquireOutOfDate
    \/ FwAlone /\ FwRedrawAcquireFailed
    \/ FwAlone /\ FwRedrawExecuteFailed
    \/ FwAlone /\ FwRedrawSubmitted
    \/ EngAlone /\ EngUseGraphics
    \/ EngAlone /\ EngOpenWindow
    \/ EngAlone /\ EngRun
    \/ EngAlone /\ EngCloseRequested
    \/ EngAlone /\ EngResized
    \/ EngAlone /\ EngRedrawRequested
    \/ EngAlone /\ EngAboutToWait
    \/ EngAlone /\ EngUpdate

SpecRun == Init /\ [][RunNext]_vars

\* The Engine's loop with update functions registered: the events that
\* post or are user events, the close of a window, and the Shutdown event,
\* which is delivered at last once it has been posted. (The other
\* specifications follow an Engine built without update functions.)
ExitNext ==
    \/ EngAddUpdateFunc
    \/ EngUseGraphics
    \/ EngRun
    \/ EngCloseRequested
    \/ EngAboutToWait
    \/ EngUpdate
    \/ EngShutdown

SpecExit == Init /\ [][ExitNext]_vars /\ WF_vars(EngShutdown)

\* The example simulation under the Engine's loop: Update events keep
\* coming while the loop runs.
SpecSim == Init /\ [][SimNext]_vars /\ WF_vars(SimUpdate)

\* Start-up and the two loops together: a constructor is followed only
\* while neither loop has moved, and a loop moves only while no constructor
\* has been called.
StAlone == FwAlone /\ EngAlone
StIdle == stPc = "idle"

AllNext ==
    \/ StAlone /\ StCall
    \/ StAlone /\ StSimpleStep
    \/ StAlone /\ StEnumerate
    \/ StAlone /\ StSelect
    \/ StAlone /\ StCreateDevice
    \/ StAlone /\ StFetchQueue
    \/ StAlone /\ StSurfaceFormats
    \/ StAlone /\ StCreateSwapchain
    \/ StAlone /\ StDropLogger
    \/ StIdle /\ FwAlone /\ FwCloseRequested
    \/ StIdle /\ FwAlone /\ FwResized
    \/ StIdle /\ FwAlone /\ FwRedrawSkipped
    \/ StIdle /\ FwAlone /\ FwRedrawRecreateFailed
    \/ StIdle /\ FwAlone /\ FwRedrawAcquireOutOfDate
    \/ StIdle /\ FwAlone /\ FwRedrawAcquireFailed
    \/ StIdle /\ FwAlone /\ FwRedrawExecuteFailed
    \/ StIdle /\ FwAlone /\ FwRedrawSubmitted
    \/ StIdle /\ EngAlone /\ EngUseGraphics
    \/ StIdle /\ EngAlone /\ EngOpenWindow
    \/ StIdle /\ EngAlone /\ EngRun
    \/ StIdle /\ EngAlone /\ EngCloseRequested
    \/ StIdle /\ EngAlone /\ EngResized
    \/ StIdle /\ EngAlone /\ EngRedrawRequested
    \/ StIdle /\ EngAlone /\ EngAboutToWait
    \/ StIdle /\ EngAlone /\ EngUpdate

SpecAll == Init /\ [][AllNext]_vars

---------------------------------------------------------------------------
(* Properties *)

\* Entry e of fwTrace is a present cycle that made the call op.
FwHasCall(e, op) == \E k \in DOMAIN e.calls : e.calls[k].op = op

\* Entry e is a present cycle for a window with a non-zero extent.
FwIsCycle(e) == e.event = "RedrawRequested" /\ ~IsZeroExtent(e.size)

\* Entry j is the first present cycle with a non-zero extent after entry i.
FwNextCycle(i, j) ==
    /\ i < j
    /\ j \in DOMAIN fwTrace
    /\ FwIsCycle(fwTrace[j])
    /\ \A m \in (i + 1)..(j - 1) : ~FwIsCycle(fwTrace[m])

\* In cycle e the swapchain is recreated with the window's current extent,
\* and no image is acquired before that.
FwRecreatesFirst(e) ==
    \E k \in DOMAIN e.calls :
        /\ e.calls[k].op = "recreate"
        /\ e.calls[k].extent = e.size
        /\ \A m \in DOMAIN e.calls :
              e.calls[m].op \in {"acquire_next_image", "then_execute",
                                 "then_swapchain_present"} => m > k

\* C1: a cycle whose acquisition returns OutOfDate submits nothing, leaves
\* prev_frame_end as it was and sets recreate_swapchain; the next cycle with
\* a non-zero extent recreates the swapchain before it acquires.
C1_AcquireOutOfDateDefersToNextCycle ==
    \A i \in DOMAIN fwTrace :
        fwTrace[i].acquire = "OutOfDate" =>
            /\ ~FwHasCall(fwTrace[i], "then_execute")
            /\ ~FwHasCall(fwTrace[i], "then_swapchain_present")
            /\ ~FwHasCall(fwTrace[i], "then_signal_fence_and_flush")
            /\ fwTrace[i].post.prev_frame_end = fwTrace[i].pre.prev_frame_end
            /\ fwTrace[i].post.recreate_swapchain
            /\ \A j \in DOMAIN fwTrace :
                  FwNextCycle(i, j) => FwRecreatesFirst(fwTrace[j])

C1_Witness ==
    \E i, j \in DOMAIN fwTrace :
        /\ fwTrace[i].acquire = "OutOfDate"
        /\ FwNextCycle(i, j)
        /\ FwHasCall(fwTrace[j], "recreate")
        /\ FwHasCall(fwTrace[j], "acquire_next_image")

\* C2: a cycle whose flush returns OutOfDate ends with prev_frame_end a
\* fresh "now" token, recreate_swapchain set and the loop still running.
C2_FlushOutOfDateResetsToken ==
    \A i \in DOMAIN fwTrace :
        fwTrace[i].flush = "OutOfDate" =>
            /\ Len(fwTrace[i].post.prev_frame_end) = 1
            /\ fwTrace[i].post.prev_frame_end[1].kind = "now"
            /\ fwTrace[i].post.prev_frame_end[1].id
                  # fwTrace[i].pre.prev_frame_end[1].id
            /\ fwTrace[i].post.recreate_swapchain
            /\ fwTrace[i].status = "running"
            /\ (i = Len(fwTrace) => fwStatus = "running")

C2_Witness ==
    \E i, j \in DOMAIN fwTrace :
        /\ fwTrace[i].flush = "OutOfDate"
        /\ j = i + 1
        /\ FwHasCall(fwTrace[j], "acquire_next_image")

\* C3: while the loop has not panicked the window holds a token after every
\* handled event; a cycle that took the token for a submission ends with a
\* new one: the submission's token when the flush succeeded, a fresh "now"
\* token when it failed.
C3_OneTokenAtCycleBoundary ==
    /\ fwStatus # "panicked" => Len(fwWindow.prev_frame_end) = 1
    /\ \A i \in DOMAIN fwTrace :
          fwTrace[i].status # "panicked" =>
              /\ Len(fwTrace[i].pre.prev_frame_end) = 1
              /\ Len(fwTrace[i].post.prev_frame_end) = 1
              /\ fwTrace[i].flush = "none" =>
                    fwTrace[i].post.prev_frame_end = fwTrace[i].pre.prev_frame_end
              /\ fwTrace[i].flush = "Ok" =>
                    /\ fwTrace[i].post.prev_frame_end[1].kind = "frame"
                    /\ fwTrace[i].post.prev_frame_end[1].after
                          = <<fwTrace[i].pre.prev_frame_end[1].id>>
                    /\ fwTrace[i].post.prev_frame_end[1].id
                          # fwTrace[i].pre.prev_frame_end[1].id
              /\ fwTrace[i].flush \in {"OutOfDate", "Err"} =>
                    /\ fwTrace[i].post.prev_frame_end[1].kind = "now"
                    /\ fwTrace[i].post.prev_frame_end[1].id
                          # fwTrace[i].pre.prev_frame_end[1].id

C3_Witness ==
    /\ \E i \in DOMAIN fwTrace : fwTrace[i].flush = "Err"
    /\ \E i \in DOMAIN fwTrace : fwTrace[i].flush = "Ok"
    /\ \E i \in DOMAIN fwTrace : fwTrace[i].acquire = "OutOfDate"
    /\ fwStatus = "running"

\* C4 for the Framework: a cycle that recreated the swapchain and saw no
\* OutOfDate or suboptimal signal ends with recreate_swapchain clear, and a
\* redraw right after it, or right after construction, does not recreate.
C4_FrameworkFlagClearAfterRecreate ==
    /\ \A i \in DOMAIN fwTrace :
          /\ FwHasCall(fwTrace[i], "recreate")
          /\ fwTrace[i].acquire = "Ok"
          /\ fwTrace[i].flush \in {"Ok", "Err"}
          => /\ ~fwTrace[i].post.recreate_swapchain
             /\ (i + 1 \in DOMAIN fwTrace /\ fwTrace[i + 1].event = "RedrawRequested")
                   => ~FwHasCall(fwTrace[i + 1], "recreate")
    /\ (fwTrace # <<>> /\ fwTrace[1].event = "RedrawRequested")
          => ~FwHasCall(fwTrace[1], "recreate")

\* C4 for the Engine: a redraw whose recreate_swapchain returned Ok leaves
\* the window's should_recreate_swapchain clear.
C4_EngineFlagClearAfterRecreate ==
    \A n \in DOMAIN engLast :
        LET e == engLast[n]
            k == WindowIndFromId(e.pre, e.id)
        IN  (e.event = "RedrawRequested" /\ e.result = "Ok")
                => ~e.post[k].should_recreate_swapchain

\* C4: after every successful create or recreate of a window's swapchain the
\* window's dirty flag is clear, in the Framework and in the Engine.
C4_FlagClearAfterRecreate ==
    C4_FrameworkFlagClearAfterRecreate /\ C4_EngineFlagClearAfterRecreate

\* C5 for the Framework: a redraw that follows a resize to a non-zero extent
\* recreates with that extent before acquiring, and once recreation has
\* succeeded the viewport extent is that extent.
C5_FrameworkResizeThenRedraw ==
    \A j \in DOMAIN fwTrace :
        /\ fwTrace[j].event = "Resized"
        /\ ~IsZeroExtent(fwTrace[j].size)
        /\ j + 1 \in DOMAIN fwTrace
        /\ fwTrace[j + 1].event = "RedrawRequested"
        => /\ FwRecreatesFirst(fwTrace[j + 1])
           /\ fwTrace[j + 1].size = fwTrace[j].size
           /\ FwHasCall(fwTrace[j + 1], "acquire_next_image") =>
                 fwTrace[j + 1].post.viewport.extent
                    = <<fwTrace[j].size[1], fwTrace[j].size[2]>>

\* C5 for the Engine: a redraw of a window that has a swapchain and was
\* resized to a non-zero extent other than the swapchain's leaves the
\* viewport extent equal to the window's extent.
C5_EngineResizeThenRedraw ==
    \A n \in DOMAIN engLast :
        LET e == engLast[n]
            k == WindowIndFromId(e.pre, e.id)
        IN  (/\ e.event = "RedrawRequested"
             /\ k > 0
             /\ e.pre[k].present # <<>>
             /\ e.pre[k].should_recreate_swapchain
             /\ ~IsZeroExtent(e.pre[k].size)
             /\ e.status = "running")
                => /\ e.post[k].present[1].swapchain.image_extent = e.pre[k].size
                   /\ e.post[k].present[1].viewport.extent
                         = <<e.pre[k].size[1], e.pre[k].size[2]>>

\* C5: a resize to a new non-zero extent between two redraws makes the next
\* redraw recreate the swapchain with that extent, and the viewport extent
\* is then the new extent, in the Framework and in the Engine.
C5_ResizeThenRedrawUpdatesViewport ==
    C5_FrameworkResizeThenRedraw /\ C5_EngineResizeThenRedraw

\* C6 for the Framework: a redraw with a zero width or height makes no call
\* and leaves the window as it was, the loop running.
C6_FrameworkZeroExtentNoOp ==
    \A i \in DOMAIN fwTrace :
        (fwTrace[i].event = "RedrawRequested" /\ IsZeroExtent(fwTrace[i].size))
            => /\ fwTrace[i].calls = <<>>
               /\ fwTrace[i].post = fwTrace[i].pre
               /\ fwTrace[i].status = "running"

\* C6 for the Engine: a redraw of an open window with a zero width or height
\* attempts no creation or recreation and leaves the window list as it was,
\* the loop running.
C6_EngineZeroExtentNoOp ==
    \A n \in DOMAIN engLast :
        LET e == engLast[n]
            k == WindowIndFromId(e.pre, e.id)
        IN  (e.event = "RedrawRequested" /\ k > 0 /\ IsZeroExtent(e.pre[k].size))
                => /\ e.result = "none"
                   /\ e.post = e.pre
                   /\ e.status = "running"

\* C6: a redraw request for a window whose extent has a zero dimension
\* changes nothing and raises no error, in the Framework and in the Engine.
C6_ZeroExtentRedrawNoOp ==
    C6_FrameworkZeroExtentNoOp /\ C6_EngineZeroExtentNoOp

\* C7: a cycle whose acquisition reports suboptimal executes and presents on
\* the swapchain it acquired from, without recreating it, ends with
\* recreate_swapchain set, and the next cycle with a non-zero extent
\* recreates before it acquires.
C7_SuboptimalRendersThenRecreatesNextCycle ==
    \A i \in DOMAIN fwTrace :
        fwTrace[i].acquire = "Suboptimal" =>
            /\ \E k \in DOMAIN fwTrace[i].calls :
                  /\ fwTrace[i].calls[k].op = "acquire_next_image"
                  /\ k + 1 \in DOMAIN fwTrace[i].calls
                  /\ fwTrace[i].calls[k + 1].op = "then_execute"
                  /\ \A m \in DOMAIN fwTrace[i].calls :
                        m > k => /\ fwTrace[i].calls[m].op # "recreate"
                                 /\ fwTrace[i].calls[m].gen = fwTrace[i].calls[k].gen
                  /\ fwTrace[i].post.swapchain.gen = fwTrace[i].calls[k].gen
            /\ fwTrace[i].status = "running" =>
                  /\ FwHasCall(fwTrace[i], "then_swapchain_present")
                  /\ FwHasCall(fwTrace[i], "then_signal_fence_and_flush")
            /\ fwTrace[i].post.recreate_swapchain
            /\ \A j \in DOMAIN fwTrace :
                  FwNextCycle(i, j) => FwRecreatesFirst(fwTrace[j])

C7_Witness ==
    \E i, j \in DOMAIN fwTrace :
        /\ fwTrace[i].acquire = "Suboptimal"
        /\ fwTrace[i].flush = "Ok"
        /\ FwNextCycle(i, j)
        /\ FwHasCall(fwTrace[j], "acquire_next_image")

\* C8: a close request for the window at index 0 empties the window list and
\* ends the loop; a close request for a window at another index removes that
\* window alone, keeps the others in order and leaves the loop running.
C8_CloseRequest ==
    \A n \in DOMAIN engLast :
        LET e == engLast[n]
            k == WindowIndFromId(e.pre, e.id)
        IN  e.event = "CloseRequested" =>
                /\ k = 1 => /\ e.post = <<>>
                            /\ e.status = "exited"
                /\ k > 1 => /\ Len(e.post) = Len(e.pre) - 1
                            /\ \A j \in 1..(k - 1) : e.post[j] = e.pre[j]
                            /\ \A j \in k..Len(e.post) : e.post[j] = e.pre[j + 1]
                            /\ e.status = "running"

C8_Witness ==
    \E n \in DOMAIN engLast :
        /\ engLast[n].event = "CloseRequested"
        /\ Len(engLast[n].pre) = 3
        /\ WindowIndFromId(engLast[n].pre, engLast[n].id) = 2
        /\ engWindows = <<engLast[n].pre[1], engLast[n].pre[3]>>
        /\ engStatus = "running"

\* C9: a window without Present has should_recreate_swapchain set; a redraw
\* request for it attempts the creation, and when the creation succeeds the
\* window has a Present whose swapchain and viewport have the window's extent.
C9_FirstRedrawCreates ==
    /\ \A k \in DOMAIN engWindows :
          engWindows[k].present = <<>> => engWindows[k].should_recreate_swapchain
    /\ \A n \in DOMAIN engLast :
          LET e == engLast[n]
              k == WindowIndFromId(e.pre, e.id)
          IN  (e.event = "RedrawRequested" /\ k > 0 /\ e.pre[k].present = <<>>)
                  => /\ e.result # "none"
                     /\ e.result = "Ok" =>
                           /\ e.status = "running"
                           /\ e.post[k].present # <<>>
                           /\ e.post[k].present[1].swapchain.image_extent = e.pre[k].size
                           /\ e.post[k].present[1].viewport.extent
                                 = <<e.pre[k].size[1], e.pre[k].size[2]>>

C9_Witness ==
    \E n \in DOMAIN engLast :
        /\ engLast[n].event = "RedrawRequested"
        /\ engLast[n].result = "Ok"
        /\ engLast[n].pre[1].present = <<>>
        /\ engLast[n].pre[1].size = <<800, 600>>
        /\ engLast[n].post[1].present # <<>>
        /\ engLast[n].post[1].present[1].viewport.extent = <<800, 600>>

\* C10: every acquire_next_image is made with recreate_swapchain clear, and
\* when the cycle began with the flag set, on a swapchain recreated in that
\* cycle with the window's current extent.
C10_AcquireOnlyWhenReady ==
    \A i \in DOMAIN fwTrace :
        \A k \in DOMAIN fwTrace[i].calls :
            fwTrace[i].calls[k].op = "acquire_next_image" =>
                /\ ~fwTrace[i].calls[k].dirty
                /\ fwTrace[i].pre.recreate_swapchain =>
                      /\ FwRecreatesFirst(fwTrace[i])
                      /\ fwTrace[i].calls[k].gen = fwTrace[i].pre.swapchain.gen + 1
                      /\ fwTrace[i].calls[k].extent = fwTrace[i].size

C10_Witness ==
    \E i \in DOMAIN fwTrace :
        /\ fwTrace[i].pre.recreate_swapchain
        /\ FwHasCall(fwTrace[i], "acquire_next_image")
        /\ fwTrace[i].size = <<400, 300>>

---------------------------------------------------------------------------
(* Device selection and logical device (Graphics::new, Framework::new)     *)

\* The preference order of device-type classes, best first.
ClassOrder == <<"DiscreteGpu", "IntegratedGpu", "VirtualGpu", "Cpu", "Other">>
ClassRank(t) == CHOOSE k \in DOMAIN ClassOrder : ClassOrder[k] = t
IsListedClass(t) == \E k \in DOMAIN ClassOrder : ClassOrder[k] = t

\* Some queue family of p is graphics-capable and can present to the surface.
HasGraphicsPresentFamily(p) ==
    \E k \in DOMAIN p.families :
        p.families[k].graphics /\ p.families[k].present = "true"

\* p passes filtering.
Qualifies(p) ==
    /\ p.khr_swapchain
    /\ p.api13 \/ p.khr_dynamic_rendering
    /\ HasGraphicsPresentFamily(p)

\* The enumerated places whose device passes filtering.
QualifyingPlaces(devices) == {i \in DOMAIN devices : Qualifies(devices[i])}

\* C11: the selected device is one of the enumerated devices that pass
\* filtering, and no device that passes filtering has a class earlier in the
\* order discrete < integrated < virtual < CPU < other than the selected one:
\* with a qualifying discrete GPU in the list the selection is a discrete
\* GPU, wherever in the enumeration it stands.
C11_SelectedHasBestDeviceType ==
    stSelected # <<>> =>
        LET devices == stDevices[1]
            sel == stSelected[1]
        IN  /\ sel.index \in QualifyingPlaces(devices)
            /\ sel.device = devices[sel.index]
            /\ \A i \in QualifyingPlaces(devices) :
                  IsListedClass(devices[i].device_type) =>
                      /\ IsListedClass(sel.device.device_type)
                      /\ ClassRank(sel.device.device_type)
                            <= ClassRank(devices[i].device_type)
            /\ (\E i \in QualifyingPlaces(devices) :
                    devices[i].device_type = "DiscreteGpu")
                  => sel.device.device_type = "DiscreteGpu"

\* A qualifying integrated GPU is enumerated before a qualifying discrete
\* GPU, and the discrete one is selected.
C11_Witness ==
    /\ stSelected # <<>>
    /\ Len(stDevices[1]) = 2
    /\ QualifyingPlaces(stDevices[1]) = {1, 2}
    /\ stDevices[1][1].device_type = "IntegratedGpu"
    /\ stDevices[1][2].device_type = "DiscreteGpu"
    /\ stSelected[1].index = 2

\* C12: the selected device is the first enumerated among the qualifying
\* devices of the selected class, and the selected queue family is the first
\* family of that device that is graphics- and present-capable; so the same
\* enumerated sequence always gives the same device and family.
C12_TieGoesToFirstEnumerated ==
    stSelected # <<>> =>
        LET devices == stDevices[1]
            sel == stSelected[1]
            fams == sel.device.families
        IN  /\ \A i \in QualifyingPlaces(devices) :
                  devices[i].device_type = sel.device.device_type
                      => sel.index <= i
            /\ sel.family + 1 \in DOMAIN fams
            /\ fams[sel.family + 1].graphics
            /\ fams[sel.family + 1].present = "true"
            /\ \A k \in 1..sel.family :
                  ~(fams[k].graphics /\ fams[k].present = "true")

\* Two qualifying devices of the same class that differ otherwise, and the
\* first one is selected.
C12_Witness ==
    /\ stSelected # <<>>
    /\ Len(stDevices[1]) = 2
    /\ QualifyingPlaces(stDevices[1]) = {1, 2}
    /\ stDevices[1][1].device_type = stDevices[1][2].device_type
    /\ stDevices[1][1] # stDevices[1][2]
    /\ stSelected[1].index = 1
    /\ stSelected[1].device = stDevices[1][1]

\* C13: once selection has run over a successful enumeration in which no
\* device has a graphics- and present-capable family (the empty list
\* included), the constructor has returned its no-suitable-device error from
\* the selection step; and a device without such a family standing in a list
\* with a qualifying device does not stop the selection, which succeeds with
\* a device that has one.
C13_NoSuitableDeviceError ==
    (stDevices # <<>> /\ stPc # "select") =>
        LET devices == stDevices[1]
        IN  /\ (\A i \in DOMAIN devices : ~HasGraphicsPresentFamily(devices[i]))
                  => /\ stPc = "failed"
                     /\ stResult = <<[kind |-> "Err", step |-> "select",
                                      error |-> IF stProgram = "Graphics"
                                                THEN "NoSuitableGPU"
                                                ELSE "NoSuitableVulkanPhysicalDevices"]>>
            /\ QualifyingPlaces(devices) # {}
                  => /\ stSelected # <<>>
                     /\ HasGraphicsPresentFamily(stSelected[1].device)
                     /\ (stResult # <<>> => stResult[1].step \notin {"enumerate", "select"})

\* A non-empty enumeration without any qualifying family has ended in the
\* no-suitable-device error.
C13_Witness ==
    /\ stDevices # <<>>
    /\ Len(stDevices[1]) = 2
    /\ \A i \in DOMAIN stDevices[1] : ~HasGraphicsPresentFamily(stDevices[1][i])
    /\ stPc = "failed"
    /\ stResult # <<>>
    /\ stResult[1].step = "select"

\* C14: the selected device supports khr_swapchain and has api version 1.3 or
\* supports khr_dynamic_rendering; the extensions requested at device creation
\* contain khr_swapchain, and contain khr_dynamic_rendering exactly when the
\* selected device's api version is below 1.3.
C14_DynamicRenderingExtension ==
    stSelected # <<>> =>
        LET p == stSelected[1].device
            request == stRequest[1]
        IN  /\ p.khr_swapchain
            /\ p.api13 \/ p.khr_dynamic_rendering
            /\ "khr_swapchain" \in request.enabled_extensions
            /\ ("khr_dynamic_rendering" \in request.enabled_extensions) <=> ~p.api13

\* A device below 1.3 was selected and the extension is requested.
C14_Witness ==
    /\ stSelected # <<>>
    /\ ~stSelected[1].device.api13
    /\ "khr_dynamic_rendering" \in stRequest[1].enabled_extensions
    /\ stPc = "queue"

\* C15: the device create info holds one queue request, for the selected
\* family; a rejected Device::new ends the constructor with its
\* device-creation error, a missing queue ends it with a named error other
\* than the device-creation one, and in both cases the constructor has
\* failed: it returns no object and runs no further step.
C15_DeviceAndQueueErrors ==
    /\ stRequest # <<>> =>
          stRequest[1].queue_create_infos = <<stSelected[1].family>>
    /\ (stResult # <<>> /\ stResult[1].step = "device") =>
          /\ stPc = "failed"
          /\ stResult[1].kind = "Err"
          /\ stResult[1].error = IF stProgram = "Graphics"
                                 THEN "DeviceOrQueueCreationFailed"
                                 ELSE "VulkanDeviceCreationFailed"
    /\ (stPc = "failed" /\ stResult[1].step = "queue") =>
          /\ stResult[1].kind = "Err"
          /\ stResult[1].error \notin {"none", "DeviceOrQueueCreationFailed",
                                       "VulkanDeviceCreationFailed"}

---------------------------------------------------------------------------
(* Swapchain generations (Framework::new, Framework::run,                  *)
(* AspenWindow::recreate_swapchain)                                        *)

\* viewport has offset [0,0], depth range [0,1] and the given extent.
ViewportFits(viewport, extent) ==
    /\ viewport.offset = <<0, 0>>
    /\ viewport.depth_range = <<0, 1>>
    /\ viewport.extent = <<extent[1], extent[2]>>

\* Entry e holds a successful recreation of the Framework's swapchain.
FwRecreatedIn(e) ==
    FwHasCall(e, "recreate") /\ e.post.swapchain.gen = e.pre.swapchain.gen + 1

\* C16: the viewport of the window Framework::new builds, the viewport after
\* every successful recreation in Framework::run and the viewport after every
\* successful AspenWindow::recreate_swapchain have offset [0,0], depth range
\* [0,1] and the extent of the images of the swapchain generation last built
\* for the window.
C16_ViewportFitsBuiltImages ==
    /\ fwTrace = <<>> => ViewportFits(fwWindow.viewport, fwWindow.swapchain.image_extent)
    /\ \A n \in DOMAIN fwTrace :
          FwRecreatedIn(fwTrace[n]) =>
              /\ fwTrace[n].post.swapchain.image_extent = fwTrace[n].size
              /\ ViewportFits(fwTrace[n].post.viewport, fwTrace[n].size)
    /\ \A n \in DOMAIN engLast :
          LET e == engLast[n]
              k == WindowIndFromId(e.pre, e.id)
          IN  (e.event = "RedrawRequested" /\ e.result = "Ok") =>
                  /\ e.post[k].present[1].images.gen = e.post[k].present[1].swapchain.gen
                  /\ e.post[k].present[1].images.extent
                        = e.post[k].present[1].swapchain.image_extent
                  /\ ViewportFits(e.post[k].present[1].viewport,
                                  e.post[k].present[1].swapchain.image_extent)

\* The Framework's swapchain was recreated for another extent than the one
\* before, and the viewport has the new extent.
C16_Witness ==
    \E n \in DOMAIN fwTrace :
        /\ FwRecreatedIn(fwTrace[n])
        /\ fwTrace[n].pre.swapchain.image_extent = <<800, 600>>
        /\ fwTrace[n].pre.viewport.extent = <<800, 600>>
        /\ fwTrace[n].post.swapchain.image_extent = <<400, 300>>
        /\ fwTrace[n].post.viewport.extent = <<400, 300>>

\* C17: through every event the Framework's swapchain keeps the surface, the
\* image format and the requested image count it was first created with, a
\* successful recreation changing its extent (and generation) only; and a
\* window of the Engine that has a swapchain keeps that swapchain, with its
\* surface, format and image count, through every event.
C17_RecreationKeepsCreateInfo ==
    /\ \A n \in DOMAIN fwTrace :
          LET e == fwTrace[n]
              first == fwTrace[1].pre.swapchain
          IN  /\ e.post.swapchain.surface = first.surface
              /\ e.post.swapchain.image_format = first.image_format
              /\ e.post.swapchain.min_image_count = first.min_image_count
              /\ FwRecreatedIn(e) =>
                    e.post.swapchain = [e.pre.swapchain EXCEPT
                                           !.gen = @ + 1, !.image_extent = e.size]
    /\ \A n \in DOMAIN engLast :
          LET e == engLast[n]
          IN  \A k \in DOMAIN e.pre, m \in DOMAIN e.post :
                  (e.pre[k].id = e.post[m].id /\ e.pre[k].present # <<>>) =>
                      /\ e.post[m].present # <<>>
                      /\ e.post[m].present[1].swapchain.surface
                            = e.pre[k].present[1].swapchain.surface
                      /\ e.post[m].present[1].swapchain.image_format
                            = e.pre[k].present[1].swapchain.image_format
                      /\ e.post[m].present[1].swapchain.min_image_count
                            = e.pre[k].present[1].swapchain.min_image_count

\* A swapchain first created with more than two images in a format of its
\* own is recreated twice, for two different extents.
C17_Witness ==
    \E n \in DOMAIN fwTrace, m \in DOMAIN fwTrace :
        /\ n < m
        /\ FwRecreatedIn(fwTrace[n])
        /\ FwRecreatedIn(fwTrace[m])
        /\ fwTrace[n].size # fwTrace[m].size
        /\ fwTrace[1].pre.swapchain.min_image_count > 2
        /\ fwTrace[m].post.swapchain.min_image_count > 2
        /\ fwTrace[m].post.swapchain.image_format = "R8G8B8A8_UNORM"

\* C18: the images a window stores are those of its current swapchain
\* generation, and its image views are one per image of that generation.
C18_StoredImagesAreCurrent ==
    /\ fwWindow.images.gen = fwWindow.swapchain.gen
    /\ fwWindow.image_views.gen = fwWindow.swapchain.gen
    /\ fwWindow.image_views.count = fwWindow.images.count
    /\ \A k \in DOMAIN engWindows :
          engWindows[k].present # <<>> =>
              /\ engWindows[k].present[1].images.gen
                    = engWindows[k].present[1].swapchain.gen
              /\ engWindows[k].present[1].image_views.gen
                    = engWindows[k].present[1].swapchain.gen
              /\ engWindows[k].present[1].image_views.count
                    = engWindows[k].present[1].images.count

\* The larger of two numbers.
MaxOf(a, b) == IF a >= b THEN a ELSE b

\* C19: a swapchain's first creation requests max(2, m) images, m being the
\* minimum image count the surface reported: in Framework::new for every m,
\* and in the window of a running Framework and the windows of the Engine
\* for the answer the surface gave with the format the swapchain has.
C19_FirstCreationImageCount ==
    /\ stSwapchain # <<>> =>
          stSwapchain[1].swapchain.min_image_count
              = MaxOf(2, stSwapchain[1].reported_min_image_count)
    /\ fwTrace = <<>> =>
          \E a \in SurfaceAnswers :
              /\ fwWindow.swapchain.image_format = a.image_format
              /\ fwWindow.swapchain.min_image_count = MaxOf(2, a.min_image_count)
    /\ \A n \in DOMAIN engLast :
          LET e == engLast[n]
              k == WindowIndFromId(e.pre, e.id)
          IN  (e.event = "RedrawRequested" /\ e.result = "Ok"
                  /\ e.pre[k].present = <<>>) =>
                  \E a \in SurfaceAnswers :
                      /\ e.post[k].present[1].swapchain.image_format = a.image_format
                      /\ e.post[k].present[1].swapchain.min_image_count
                            = MaxOf(2, a.min_image_count)
                      /\ e.post[k].present[1].images.count
                            = MaxOf(2, a.min_image_count)

\* Framework::new created a swapchain for a surface that reported a minimum
\* of one image, and requested two.
C19_Witness ==
    /\ stSwapchain # <<>>
    /\ stSwapchain[1].reported_min_image_count = 1
    /\ stSwapchain[1].swapchain.min_image_count = 2
    /\ stPc = "done"

---------------------------------------------------------------------------
(* Submission order (Framework::run)                                       *)

\* The place of the call op in entry e, 0 when e does not make it.
FwCallPlace(e, op) ==
    IF FwHasCall(e, op)
    THEN CHOOSE k \in DOMAIN e.calls : e.calls[k].op = op
    ELSE 0

\* C20: in a cycle that reaches then_execute the previous token is there to
\* be taken and an image has been acquired before; the present request comes
\* after then_execute and before the flush, on the swapchain the image was
\* acquired from; and the token stored after a successful flush waits for
\* the previous token and for that acquisition, and stands for the execution
\* followed by the present.
C20_SubmissionOrder ==
    \A n \in DOMAIN fwTrace :
        LET e == fwTrace[n]
            acquire == FwCallPlace(e, "acquire_next_image")
            execute == FwCallPlace(e, "then_execute")
            present == FwCallPlace(e, "then_swapchain_present")
            flush == FwCallPlace(e, "then_signal_fence_and_flush")
        IN  /\ execute > 0 =>
                  /\ e.pre.prev_frame_end # <<>>
                  /\ 0 < acquire /\ acquire < execute
                  /\ e.calls[execute].gen = e.calls[acquire].gen
            /\ present > 0 =>
                  /\ 0 < execute /\ execute < present
                  /\ e.calls[present].gen = e.calls[acquire].gen
            /\ flush > 0 => (0 < present /\ present < flush)
            /\ e.flush = "Ok" =>
                  /\ flush > 0
                  /\ e.post.prev_frame_end # <<>>
                  /\ e.post.prev_frame_end[1].kind = "frame"
                  /\ e.post.prev_frame_end[1].after = <<e.pre.prev_frame_end[1].id>>
                  /\ e.post.prev_frame_end[1].acquired = <<e.calls[acquire].gen>>
                  /\ e.post.prev_frame_end[1].work
                        = <<"then_execute", "then_swapchain_present">>
                  /\ e.post.prev_frame_end[1].id # e.pre.prev_frame_end[1].id

\* Two cycles in a row are submitted and flushed, the second after a
\* recreation, and the second token waits for the first.
C20_Witness ==
    \E n \in DOMAIN fwTrace :
        /\ n > 1
        /\ fwTrace[n - 1].flush = "Ok"
        /\ fwTrace[n].flush = "Ok"
        /\ FwHasCall(fwTrace[n], "recreate")
        /\ fwTrace[n].pre.prev_frame_end[1].kind = "frame"
        /\ fwTrace[n].post.prev_frame_end[1].after
              = <<fwTrace[n].pre.prev_frame_end[1].id>>
        /\ fwTrace[n].post.prev_frame_end[1].acquired = <<fwTrace[n].post.swapchain.gen>>

---------------------------------------------------------------------------
(* Errors of the present cycle (Framework::run, Engine::run)               *)

\* C21: a cycle whose acquisition returns an error other than OutOfDate
\* makes no call after acquire_next_image, ends the loop with a panic and is
\* the last event the loop handles.
C21_AcquireErrorIsFatal ==
    \A n \in DOMAIN fwTrace :
        fwTrace[n].acquire = "Err" =>
            /\ ~FwHasCall(fwTrace[n], "then_execute")
            /\ ~FwHasCall(fwTrace[n], "then_swapchain_present")
            /\ ~FwHasCall(fwTrace[n], "then_signal_fence_and_flush")
            /\ fwTrace[n].flush = "none"
            /\ fwTrace[n].status = "panicked"
            /\ n = Len(fwTrace)
            /\ fwStatus = "panicked"

\* After a submitted cycle, acquisition fails with another error.
C21_Witness ==
    \E n \in DOMAIN fwTrace :
        /\ n > 1
        /\ fwTrace[n - 1].flush = "Ok"
        /\ fwTrace[n].acquire = "Err"
        /\ FwHasCall(fwTrace[n], "acquire_next_image")
        /\ fwStatus = "panicked"

\* C22: a cycle whose flush returns an error other than OutOfDate ends with
\* prev_frame_end a fresh "now" token, with recreate_swapchain as it was
\* when the work was submitted and with the loop running; the next cycle
\* with a non-zero extent starts from that token and acquires an image
\* (unless a recreation it needs fails), recreating first only when the flag
\* was set for another reason.
C22_FlushErrorResetsTokenOnly ==
    \A i \in DOMAIN fwTrace :
        fwTrace[i].flush = "Err" =>
            LET e == fwTrace[i]
                flush == FwCallPlace(e, "then_signal_fence_and_flush")
            IN  /\ flush > 0
                /\ e.post.prev_frame_end # <<>>
                /\ e.post.prev_frame_end[1].kind = "now"
                /\ e.post.prev_frame_end[1].id # e.pre.prev_frame_end[1].id
                /\ e.post.recreate_swapchain = e.calls[flush].dirty
                /\ e.post.recreate_swapchain = (e.acquire = "Suboptimal")
                /\ e.status = "running"
                /\ (i = Len(fwTrace) => fwStatus = "running")
                /\ \A j \in DOMAIN fwTrace :
                      FwNextCycle(i, j) =>
                          /\ fwTrace[j].pre.prev_frame_end[1].kind = "now"
                          /\ FwHasCall(fwTrace[j], "cleanup_finished")
                          /\ FwHasCall(fwTrace[j], "recreate")
                                <=> fwTrace[j].pre.recreate_swapchain
                          /\ FwHasCall(fwTrace[j], "acquire_next_image")
                                \/ (FwHasCall(fwTrace[j], "recreate")
                                      /\ fwTrace[j].status = "panicked")

\* A flush fails with another error in a cycle that was not suboptimal, and
\* the next cycle is submitted and flushed without a recreation.
C22_Witness ==
    \E i, j \in DOMAIN fwTrace :
        /\ fwTrace[i].flush = "Err"
        /\ fwTrace[i].acquire = "Ok"
        /\ ~fwTrace[i].post.recreate_swapchain
        /\ j = i + 1
        /\ fwTrace[j].flush = "Ok"
        /\ ~FwHasCall(fwTrace[j], "recreate")
        /\ fwTrace[j].post.prev_frame_end[1].after
              = <<fwTrace[i].post.prev_frame_end[1].id>>

\* C23: a redraw whose swapchain creation or recreation fails leaves the
\* loop running and every other window as it was: in the Engine after
\* AspenWindow::recreate_swapchain returned an error, in the Framework after
\* swapchain.recreate(..) did.
C23_EngineCreationFailureIsLocal ==
    \A n \in DOMAIN engLast :
        LET e == engLast[n]
        IN  (e.event = "RedrawRequested" /\ e.result \notin {"none", "Ok"}) =>
                /\ e.status = "running"
                /\ engStatus = "running"
                /\ \A k \in DOMAIN e.pre :
                      e.pre[k].id # e.id =>
                          \E m \in DOMAIN e.post : e.post[m] = e.pre[k]

C23_FrameworkRecreationFailureIsLocal ==
    \A n \in DOMAIN fwTrace :
        (FwHasCall(fwTrace[n], "recreate") /\ ~FwRecreatedIn(fwTrace[n])) =>
            fwTrace[n].status = "running"

C23_CreationFailureIsLocal ==
    C23_EngineCreationFailureIsLocal /\ C23_FrameworkRecreationFailureIsLocal

---------------------------------------------------------------------------
(* Event dispatch (Engine::run, Framework::run)                            *)

\* C24: a Resized event for a window in the list sets that window's flag and
\* makes no runtime call: in the Framework the window is otherwise as it
\* was (swapchain, images, views, viewport, token); in the Engine every
\* other window is as it was and the resized one keeps its Present, only
\* its flag being set (and its inner size being the new one); the loop
\* keeps running.
C24_ResizeOnlyMarks ==
    /\ \A n \in DOMAIN fwTrace :
          fwTrace[n].event = "Resized" =>
              /\ fwTrace[n].calls = <<>>
              /\ fwTrace[n].post.recreate_swapchain
              /\ fwTrace[n].post = [fwTrace[n].pre EXCEPT !.recreate_swapchain = TRUE]
              /\ fwTrace[n].status = "running"
    /\ \A n \in DOMAIN engLast :
          LET e == engLast[n]
              k == WindowIndFromId(e.pre, e.id)
          IN  (e.event = "Resized" /\ k > 0) =>
                  /\ Len(e.post) = Len(e.pre)
                  /\ \A j \in DOMAIN e.pre : j # k => e.post[j] = e.pre[j]
                  /\ e.post[k].should_recreate_swapchain
                  /\ e.post[k].id = e.pre[k].id
                  /\ e.post[k].present = e.pre[k].present
                  /\ e.status = "running"

\* The Framework's window, clean and holding the token of a submitted
\* frame, is resized: the flag is set and the rest is as before.
C24_Witness ==
    \E n \in DOMAIN fwTrace :
        /\ fwTrace[n].event = "Resized"
        /\ ~fwTrace[n].pre.recreate_swapchain
        /\ fwTrace[n].pre.prev_frame_end[1].kind = "frame"
        /\ fwTrace[n].size # fwTrace[n].pre.swapchain.image_extent
        /\ fwTrace[n].post.recreate_swapchain
        /\ fwTrace[n].post.swapchain = fwTrace[n].pre.swapchain
        /\ fwTrace[n].post.viewport = fwTrace[n].pre.viewport
        /\ fwTrace[n].post.prev_frame_end = fwTrace[n].pre.prev_frame_end

\* C25: an event that carries the id of a window no longer in the list
\* (closed before) leaves the window list as it was and the loop running.
C25_ClosedWindowEventsAreIgnored ==
    \A n \in DOMAIN engLast :
        LET e == engLast[n]
        IN  (/\ e.event \in {"CloseRequested", "Resized", "RedrawRequested"}
             /\ WindowIndFromId(e.pre, e.id) = 0)
                => /\ e.post = e.pre
                   /\ e.status = "running"
                   /\ engStatus = "running"

\* C26: once the closure has run the loop polls, and an idle tick
\* (AboutToWait) requests a redraw of every open window.
C26_IdleTickRequestsRedraws ==
    /\ engEvents > 0 => engControlFlow = "Poll"
    /\ \A n \in DOMAIN engLast :
          LET e == engLast[n]
          IN  e.event = "AboutToWait" =>
                  \A k \in DOMAIN e.post :
                      e.post[k].id \in EngRedrawRequestsOf(e.event, e.pre)

\* ---------------------------------------------------------------------
\* Window locks
\* ---------------------------------------------------------------------

\* The windows whose Mutex is held just before operation i of ops.
HeldBefore(ops, i) ==
    { ops[j].window : j \in
        { j \in 1..(i - 1) :
            /\ ops[j].op = "lock"
            /\ ~ \E u \in (j + 1)..(i - 1) :
                    ops[u].op = "unlock" /\ ops[u].window = ops[j].window } }

\* C27: every lock a handler takes is the Mutex of one window of the list;
\* a handler takes a lock only while it holds none (so never two at a time
\* and never one it already holds), releases only the lock it holds, and
\* holds none when it returns.
C27_OneWindowLockAtATime ==
    \A n \in DOMAIN engLast :
        LET e == engLast[n]
            ops == e.locks
        IN  /\ \A i \in DOMAIN ops :
                  /\ ops[i].window \in DOMAIN e.pre
                  /\ ops[i].op = "lock" => HeldBefore(ops, i) = {}
                  /\ ops[i].op = "unlock" => HeldBefore(ops, i) = {ops[i].window}
            /\ HeldBefore(ops, Len(ops) + 1) = {}

\* A redraw of the second or a later window whose flag is set: the lookup
\* locks the windows before it in turn, then the arm locks it twice.
C27_Witness ==
    \E n \in DOMAIN engLast :
        LET e == engLast[n]
        IN  /\ e.event = "RedrawRequested"
            /\ WindowIndFromId(e.pre, e.id) >= 2
            /\ e.pre[WindowIndFromId(e.pre, e.id)].should_recreate_swapchain
            /\ Len(e.locks) = 2 * WindowIndFromId(e.pre, e.id) + 4
            /\ e.status = "running"

\* ---------------------------------------------------------------------
\* Failures of runtime calls
\* ---------------------------------------------------------------------

\* The selection over devices asked surface_support(..) for a family and
\* was answered with an error: the device passes both filters and the
\* family has the graphics flag and comes before any family that suits.
SupportQueryFailed(devices) ==
    \E i \in DOMAIN devices :
        LET p == devices[i]
        IN  /\ HasDynamicRendering(p) /\ HasDeviceExtensions(p)
            /\ \E j \in DOMAIN p.families :
                  /\ p.families[j].graphics
                  /\ p.families[j].present = "err"
                  /\ \A h \in 1..(j - 1) : ~ FamilySuits(p.families[h])

\* C28: no constructor ends in a panic (not on an empty list of surface
\* formats, not on a device that returns no queue); every failed
\* constructor returns an error with a name; and once a present-support
\* query has failed the constructor fails with an error instead of going on.
C28_FailuresAreNamedErrors ==
    /\ stResult # <<>> => stResult[1].kind # "panic"
    /\ stPc = "failed" =>
          stResult[1].kind = "Err" /\ stResult[1].error # "none"
    /\ (stDevices # <<>> /\ SupportQueryFailed(stDevices[1])
            /\ stPc # "select") =>
          stPc = "failed" /\ stResult[1].kind = "Err"

\* C29: when the surface reports no supported composite-alpha mode, the
\* first creation of a swapchain fails with the error named for it
\* (GetWindowCompositeSurfaceFailed from AspenWindow::recreate_swapchain,
\* GetSurfaceCompositeAlphaFailed from Framework::new); the window then has
\* no swapchain state and its flag is still set, and Framework::new has
\* built no swapchain.
C29_NoCompositeAlphaFailsCreation ==
    /\ \A n \in DOMAIN engLast :
          LET e == engLast[n]
              k == WindowIndFromId(e.pre, e.id)
          IN  (e.event = "RedrawRequested"
                 /\ e.result = "GetWindowCompositeSurfaceFailed") =>
                  /\ k > 0
                  /\ e.pre[k].present = <<>>
                  /\ Len(e.post) = Len(e.pre)
                  /\ e.post[k].present = <<>>
                  /\ e.post[k].should_recreate_swapchain
                  /\ \A j \in DOMAIN e.pre : j # k => e.post[j] = e.pre[j]
    /\ (stResult # <<>> /\ stResult[1].step = "composite_alpha") =>
          /\ stPc = "failed"
          /\ stResult[1].kind = "Err"
          /\ stResult[1].error = "GetSurfaceCompositeAlphaFailed"
          /\ stSwapchain = <<>>

\* The first redraw of a window met a surface without composite-alpha modes.
C29_Witness ==
    \E n \in DOMAIN engLast :
        /\ engLast[n].event = "RedrawRequested"
        /\ engLast[n].result = "GetWindowCompositeSurfaceFailed"
        /\ engLast[n].pre[WindowIndFromId(engLast[n].pre, engLast[n].id)].present = <<>>

\* ---------------------------------------------------------------------
\* Log records
\* ---------------------------------------------------------------------

\* C30: a cycle that ends in OutOfDate, or whose acquisition was
\* suboptimal, hands no record to the logger unless its flush failed
\* otherwise; a cycle whose flush failed with another error hands the logger
\* a record.
C30_FlushErrorsAreLogged ==
    \A i \in DOMAIN fwTrace :
        LET e == fwTrace[i]
        IN  /\ (e.flush # "Err" /\ e.acquire # "Err") => e.logged = <<>>
            /\ e.flush = "Err" => e.logged # <<>>

\* C31: a failed graphics start-up through use_graphics has put at least
\* one record in the logger, the last of them the error that is returned;
\* the log file is written at most once, at the drop of the logger, with
\* the records accumulated until then.
C31_StartupFailuresAreLogged ==
    /\ (stProgram = "Graphics" /\ stPc = "failed") =>
          /\ stResult[1].kind = "Err"
          /\ Len(stLogger.logs) >= 1
          /\ stLogger.logs[Len(stLogger.logs)] = stResult[1].error
          /\ \A n \in DOMAIN stLogger.logs : stLogger.logs[n] = stResult[1].error
    /\ (stProgram = "Graphics" /\ stPc # "failed") => stLogger.logs = <<>>
    /\ IF stLogger.dropped THEN stLogger.file = <<stLogger.logs>>
                           ELSE stLogger.file = <<>>

\* A start-up that failed at a step Graphics::new does not log itself, with
\* the logger dropped afterwards.
C31_Witness ==
    /\ stProgram = "Graphics"
    /\ stPc = "failed"
    /\ stResult[1].step \in {"select", "device", "queue"}
    /\ stLogger.dropped
    /\ stLogger.file = <<stLogger.logs>>
    /\ Len(stLogger.logs) = 1

\* ---------------------------------------------------------------------
\* Zero extents
\* ---------------------------------------------------------------------

\* C32: a cycle skipped for a zero extent makes no call and leaves the
\* window, its flag included, as it was; and when the flag is set after an
\* event that leaves the extent with a zero dimension, the next cycle with
\* a non-zero extent recreates the swapchain, with the extent of that
\* moment, before it acquires.
C32_FlagSurvivesZeroExtent ==
    \A i \in DOMAIN fwTrace :
        LET e == fwTrace[i]
        IN  /\ (e.event = "RedrawRequested" /\ IsZeroExtent(e.size)) =>
                  /\ e.calls = <<>>
                  /\ e.post = e.pre
                  /\ e.status = "running"
            /\ (IsZeroExtent(e.size) /\ e.post.recreate_swapchain) =>
                  \A j \in DOMAIN fwTrace :
                      /\ (j > i /\ \A m \in (i + 1)..(j - 1) : ~FwIsCycle(fwTrace[m]))
                            => fwTrace[j].pre.recreate_swapchain
                      /\ FwNextCycle(i, j) => FwRecreatesFirst(fwTrace[j])

\* A resize to zero, a skipped cycle, a resize back, and a cycle that
\* recreates and then acquires.
C32_Witness ==
    \E i, m, j \in DOMAIN fwTrace :
        /\ i < m /\ m < j
        /\ fwTrace[i].event = "Resized" /\ IsZeroExtent(fwTrace[i].size)
        /\ fwTrace[m].event = "RedrawRequested" /\ IsZeroExtent(fwTrace[m].size)
        /\ fwTrace[m].pre.recreate_swapchain
        /\ FwNextCycle(m, j)
        /\ FwRecreatesFirst(fwTrace[j])
        /\ FwHasCall(fwTrace[j], "acquire_next_image")

\* ---------------------------------------------------------------------
\* Order of start-up
\* ---------------------------------------------------------------------

\* The places of Graphics::new, in the order the claim gives.
GraphicsOrder ==
    <<"idle", "library", "instance", "main_window", "enumerate", "select",
      "device", "queue", "done">>

\* The place of pc in GraphicsOrder, 0 when it is not there.
GraphicsPlace(pc) ==
    IF \E k \in DOMAIN GraphicsOrder : GraphicsOrder[k] = pc
    THEN CHOOSE k \in DOMAIN GraphicsOrder : GraphicsOrder[k] = pc
    ELSE 0

\* Every step of Graphics::new either goes on to the next place of the
\* order or fails with an Err made at the step that was running.
GraphicsStepsInOrder ==
    (stProgram' = "Graphics" /\ stPc' # stPc) =>
        /\ GraphicsPlace(stPc) > 0
        /\ \/ /\ stPc' = "failed"
              /\ stResult' # <<>>
              /\ stResult'[1].kind = "Err"
              /\ stResult'[1].step = stPc
           \/ /\ GraphicsPlace(stPc') = GraphicsPlace(stPc) + 1
              /\ (stResult' = stResult \/ stPc' = "done")

\* After a failure Graphics::new runs nothing: place and result stay.
GraphicsStopsAtFailure ==
    (stProgram = "Graphics" /\ stPc = "failed") =>
        /\ stPc' = "failed"
        /\ stResult' = stResult
        /\ <<stDevices, stSelected, stRequest>>' = <<stDevices, stSelected, stRequest>>

\* Two failures of Graphics::new at different steps have different error
\* types.
GraphicsErrorsDiffer ==
    \A a, b \in {GraphicsOrder[k] : k \in 2..8} :
        a # b => StErrorOf("Graphics", a) # StErrorOf("Graphics", b)

\* C33: Graphics::new runs library, instance, main window, enumeration,
\* selection, device creation and queue fetch in this order; a failing step
\* ends it with that step's error, which differs from every other step's,
\* and no step runs after it.
C33_StartupStepsInOrder ==
    [][GraphicsStepsInOrder /\ GraphicsStopsAtFailure
          /\ (stProgram' = "Graphics" /\ stPc' = "failed" =>
                 /\ stResult'[1].error = StErrorOf("Graphics", stResult'[1].step)
                 /\ GraphicsErrorsDiffer)]_vars

\* Graphics::new got as far as the queue fetch and failed there.
C33_Witness ==
    /\ stProgram = "Graphics"
    /\ stPc = "failed"
    /\ stResult[1].step = "queue"
    /\ stSelected # <<>>
    /\ stLogger.dropped

\* ---------------------------------------------------------------------
\* The window list
\* ---------------------------------------------------------------------

\* C34: there is no window list before graphics start-up; afterwards, while
\* the list is non-empty, its first element is the main window (the window
\* made at start-up, id 0) and every other element is a window opened
\* later; open_window appends and a close of a later window leaves the
\* first in place, so a close ends the loop exactly when it is for the
\* main window.
C34_MainWindowStaysFirst ==
    /\ ~engGraphics => (engWindows = <<>> /\ engNextId = 0)
    /\ engWindows # <<>> =>
          /\ engWindows[1].id = 0
          /\ \A j \in 2..Len(engWindows) : engWindows[j].id >= 1
    /\ \A n \in DOMAIN engLast :
          LET e == engLast[n]
              k == WindowIndFromId(e.pre, e.id)
          IN  /\ (e.event = "open_window" /\ e.result = "Ok") =>
                    /\ e.post[1] = e.pre[1]
                    /\ e.post[Len(e.post)].id = e.id
                    /\ Len(e.post) >= 2
              /\ e.event = "CloseRequested" =>
                    /\ e.status = "exited" <=> (k = 1 /\ e.id = 0)
                    /\ k >= 2 => (e.post # <<>> /\ e.post[1] = e.pre[1])

\* Two windows were opened after start-up and one of them is closed.
C34_Witness ==
    \E n \in DOMAIN engLast :
        /\ engLast[n].event = "CloseRequested"
        /\ Len(engLast[n].pre) = 3
        /\ WindowIndFromId(engLast[n].pre, engLast[n].id) >= 2
        /\ Len(engLast[n].post) = 2
        /\ engLast[n].post[1].id = 0
        /\ engStatus = "running"

\* C35: open_window without graphics returns an error and leaves the
\* (absent) window list as it was; with graphics, a failed window creation
\* leaves the list unchanged and a successful one appends exactly one
\* window, which has no swapchain state and has its flag set.
C35_OpenWindowOutcomes ==
    \A n \in DOMAIN engLast :
        LET e == engLast[n]
        IN  e.event = "open_window" =>
                /\ e.result = "GraphicsAbsent" <=> e.pre = <<>>
                /\ e.result \in {"GraphicsAbsent", "WindowCreationFailed"} =>
                      e.post = e.pre
                /\ e.result = "Ok" =>
                      /\ Len(e.post) = Len(e.pre) + 1
                      /\ SubSeq(e.post, 1, Len(e.pre)) = e.pre
                      /\ e.post[Len(e.post)].present = <<>>
                      /\ e.post[Len(e.post)].should_recreate_swapchain
                      /\ \A j \in DOMAIN e.pre : e.pre[j].id # e.post[Len(e.post)].id

\* A window was opened after another one, with graphics present.
C35_Witness ==
    \E n \in DOMAIN engLast :
        /\ engLast[n].event = "open_window"
        /\ engLast[n].result = "Ok"
        /\ Len(engLast[n].pre) = 2
        /\ engGraphics

\* ---------------------------------------------------------------------
\* Update and shutdown
\* ---------------------------------------------------------------------

\* Every Update event ran each registered function once, in the order of
\* registration.
UpdateRunsEachFuncOnce ==
    \A n \in DOMAIN engLast :
        LET e == engLast[n]
        IN  e.event = "Update" =>
                /\ Len(e.calls) = Len(engUpdateFuncs)
                /\ \A k \in DOMAIN e.calls :
                      /\ e.calls[k].place = k
                      /\ e.calls[k].func = engUpdateFuncs[k]

CountersOnlyFall(before, after) ==
    \A k \in DOMAIN after :
        \E j \in DOMAIN before :
            /\ before[j].id = after[k].id
            /\ after[k].health >= 0 /\ after[k].health <= before[j].health
            /\ after[k].ammo >= 0 /\ after[k].ammo <= before[j].ammo
            /\ after[k].ammo >= before[j].ammo - 1

\* What holds of every update cycle of the simulation.
SimCycleInv ==
    /\ \A n \in DOMAIN simLast :
          LET e == simLast[n]
          IN  /\ CountersOnlyFall(e.red, e.after.red)
              /\ CountersOnlyFall(e.blue, e.after.blue)
              /\ (e.result = <<>> /\ e.after.result = <<>>) =>
                    RemainingAmmo(e.after.red) + RemainingAmmo(e.after.blue)
                        < RemainingAmmo(e.red) + RemainingAmmo(e.blue)
              /\ e.result # <<>> =>
                    (e.after.result = e.result /\ e.after.exits = 0)
    /\ simExits = IF simResult = <<>> THEN 0 ELSE 1

\* While Update events keep coming the simulation reaches a result.
SimEventuallyDecided == <> (simResult # <<>>)

====
